---- MODULE Spec2Model ----
(***************************************************************************)
(* A model of the retrieval core of the RAG repository:                    *)
(*   - ChromaStore.add_documents / _generate_id (src/ingestion/            *)
(*     vector_store.py): id assignment, duplicate filtering, sub-batched   *)
(*     writes to the chunk store;                                          *)
(*   - HybridSearch.build_bm25 / refresh / search / _rrf_fusion            *)
(*     (src/retrieval/hybrid_search.py): the keyword index snapshot, the   *)
(*     two sub-searches and Reciprocal Rank Fusion.                        *)
(*                                                                         *)
(* Four specifications:                                                    *)
(*   Spec      the running system (store, keyword index,                   *)
(*             add/refresh/search)                                         *)
(*   SpecStartup  search and refresh over a persisted store                *)
(*   SpecStore the store under add_documents calls that span sub-batches   *)
(*   SpecRRF   _rrf_fusion as a pure function of (vec_results,             *)
(*             bm25_results, k, c), its inputs drawn from bounded sets.    *)
(***************************************************************************)
EXTENDS Integers, Sequences, FiniteSets, TLC

VARIABLES
    store,       \* the Chroma collection: sequence of chunks, insertion order
    clock,       \* the last value time.time() returned
    docs_map,    \* HybridSearch.docs_map
    bm25_index,  \* HybridSearch.bm25_index: NoneIndex or the indexed corpus
    built,       \* history: the store contents read by the last completed build
    ret,         \* the outcome of the operation that just ended (its return
                 \* value or raise), NoRet once the caller has taken it
    rrf,         \* SpecRRF only: the arguments and result of one _rrf_fusion call
    pc,          \* SpecRace, SpecIngestRace: where each thread is inside its
                 \* call, and its local variables; NoThreads elsewhere
    memory       \* the MemoryManager: its history dictionary and its limit,
                 \* and for each session the messages added since it was
                 \* last cleared (kept for the properties only)

vars == <<store, clock, docs_map, bm25_index, built, ret, rrf, pc, memory>>

(***************************************************************************)
(* Bounds of the model.                                                    *)
(***************************************************************************)
MaxStore == 2      \* chunks the store may hold
MaxTime  == 2      \* instants time.time() may return: 0..MaxTime
MaxK     == 2      \* search(q, k) is called with k in 0..MaxK
MaxList  == 3      \* SpecRRF: length of each result list handed to _rrf_fusion

Texts   == {"a", "b"}          \* chunk contents
Sources == {"s"}               \* source paths
RRFTexts == {"a", "b", "c"}    \* SpecRRF: chunk contents in the result lists
Cs == {1, 2, 60}               \* SpecRRF: damping constants tried
None == "None"

(***************************************************************************)
(* Documents.  A Document has page_content and metadata; one returned by   *)
(* the vector store also carries the id it is stored under, one rebuilt by *)
(* build_bm25 does not (NoId).                                             *)
(***************************************************************************)
NoId == ""

\* self.bm25_index = None; a built index is [built |-> TRUE, corpus |-> texts]
NoneIndex == [built |-> FALSE, corpus |-> <<>>]

Document(text, meta) == [id |-> NoId, page_content |-> text, metadata |-> meta]

(***************************************************************************)
(* Exact arithmetic for RRF scores.  1/(c+rank) is represented by the      *)
(* integer scale/(c+rank), where scale is the least common multiple of     *)
(* c, c+1, ..., c+n-1 and n bounds the ranks in use; all scores of one     *)
(* fusion share the scale, so sums and comparisons are exact.              *)
(***************************************************************************)
RECURSIVE Gcd(_, _)
Gcd(a, b) == IF b = 0 THEN a ELSE Gcd(b, a % b)

Lcm(a, b) == (a \div Gcd(a, b)) * b

RECURSIVE ScoreScale(_, _)
ScoreScale(c, n) == IF n = 0 THEN 1 ELSE Lcm(ScoreScale(c, n - 1), c + n - 1)

Max(a, b) == IF a >= b THEN a ELSE b
Min(a, b) == IF a <= b THEN a ELSE b

\* 1 / (c + rank), rank 0-based
Recip(c, rank, scale) == scale \div (c + rank)

(***************************************************************************)
(* _rrf_fusion                                                             *)
(***************************************************************************)
\* Faulty variant of get_doc_key: the key also depends on the storage id
get_doc_key_with_id(doc) == <<doc.id, doc.page_content>>

\* Faulty variant of get_doc_key: the key is derived from the source path
get_doc_key_by_source(doc) == "src:" \o doc.metadata.source

\* hashlib.md5(doc.page_content.encode()).hexdigest(): a function of the text
\* alone, injective on the texts of the model
get_doc_key(doc) == "md5:" \o doc.page_content

\* scores.get(key, 0)
ScoresGet(scores, key) == IF key \in DOMAIN scores THEN scores[key] ELSE 0

\* d[key] = value on a Python dict: a new key goes last in iteration order,
\* an existing key keeps its place
DictSet(d, key, value) ==
    [keys |-> IF key \in DOMAIN d.map THEN d.keys ELSE Append(d.keys, key),
     map  |-> [x \in DOMAIN d.map \cup {key} |->
                  IF x = key THEN value ELSE d.map[x]]]

EmptyDict == [keys |-> <<>>, map |-> <<>>]

\* for rank, (doc, sim_score) in enumerate(vec_results): ...
RECURSIVE ProcessVector(_, _, _, _, _)
ProcessVector(acc, vec_results, rank, c, scale) ==
    IF rank >= Len(vec_results) THEN acc
    ELSE LET doc == vec_results[rank + 1].doc
             key == get_doc_key(doc)
             lookup == [x \in DOMAIN acc.doc_lookup \cup {key} |->
                          IF x = key
                          THEN [doc |-> doc,
                                metadata |-> [vector_score |-> vec_results[rank + 1].score,
                                              vector_rank |-> rank + 1,
                                              bm25_rank |-> 0,
                                              sources |-> <<"vector">>]]
                          ELSE acc.doc_lookup[x]]
             scores == DictSet(acc.scores, key,
                               ScoresGet(acc.scores.map, key) + Recip(c, rank, scale))
         IN ProcessVector([scores |-> scores, doc_lookup |-> lookup,
                           raised |-> FALSE],
                          vec_results, rank + 1, c, scale)

\* Faulty variant of ProcessBM25: a key the vector results already scored
\* keeps that score
RECURSIVE ProcessBM25_keeping_score(_, _, _, _, _)
ProcessBM25_keeping_score(acc, bm25_results, rank, c, scale) ==
    IF rank >= Len(bm25_results) THEN acc
    ELSE LET doc == bm25_results[rank + 1]
             key == get_doc_key(doc)
             old == acc.doc_lookup
             entry == IF key \in DOMAIN old
                      THEN [doc |-> old[key].doc,
                            metadata |-> [old[key].metadata EXCEPT
                                            !.bm25_rank = rank + 1,
                                            !.sources = Append(@, "bm25")]]
                      ELSE [doc |-> doc,
                            metadata |-> [vector_score |-> 0,
                                          vector_rank |-> 0,
                                          bm25_rank |-> rank + 1,
                                          sources |-> <<"bm25">>]]
             lookup == [x \in DOMAIN old \cup {key} |->
                          IF x = key THEN entry ELSE old[x]]
             scores == IF key \in DOMAIN acc.scores.map THEN acc.scores
                       ELSE DictSet(acc.scores, key, Recip(c, rank, scale))
         IN IF key \in DOMAIN old /\ old[key].metadata.vector_rank = 0
            THEN [acc EXCEPT !.raised = TRUE]
            ELSE ProcessBM25_keeping_score([scores |-> scores, doc_lookup |-> lookup,
                                            raised |-> FALSE],
                                           bm25_results, rank + 1, c, scale)

\* for rank, doc in enumerate(bm25_results): ...
\* When the key is already in doc_lookup the loop formats a log line with
\* doc_lookup[key][1]['vector_rank']; an entry made by an earlier keyword
\* result has no 'vector_rank', and the lookup raises KeyError (the f-string
\* is evaluated whatever the log level).
RECURSIVE ProcessBM25(_, _, _, _, _)
ProcessBM25(acc, bm25_results, rank, c, scale) ==
    IF rank >= Len(bm25_results) THEN acc
    ELSE LET doc == bm25_results[rank + 1]
             key == get_doc_key(doc)
             old == acc.doc_lookup
             entry == IF key \in DOMAIN old
                      THEN [doc |-> old[key].doc,
                            metadata |-> [old[key].metadata EXCEPT
                                            !.bm25_rank = rank + 1,
                                            !.sources = Append(@, "bm25")]]
                      ELSE [doc |-> doc,
                            metadata |-> [vector_score |-> 0,
                                          vector_rank |-> 0,
                                          bm25_rank |-> rank + 1,
                                          sources |-> <<"bm25">>]]
             lookup == [x \in DOMAIN old \cup {key} |->
                          IF x = key THEN entry ELSE old[x]]
             scores == DictSet(acc.scores, key,
                               ScoresGet(acc.scores.map, key) + Recip(c, rank, scale))
         IN IF key \in DOMAIN old /\ old[key].metadata.vector_rank = 0
            THEN [acc EXCEPT !.raised = TRUE]
            ELSE ProcessBM25([scores |-> scores, doc_lookup |-> lookup,
                              raised |-> FALSE],
                             bm25_results, rank + 1, c, scale)

\* Faulty variant of InsertDesc: key goes before the keys of equal score, as
\* in a sort that does not keep the original order of equal elements
RECURSIVE InsertDescUnstable(_, _, _)
InsertDescUnstable(sorted, key, score) ==
    IF sorted = <<>> THEN <<key>>
    ELSE IF score[Head(sorted)] > score[key]
         THEN <<Head(sorted)>> \o InsertDescUnstable(Tail(sorted), key, score)
         ELSE <<key>> \o sorted

\* One step of a stable descending sort: key goes after every key already
\* placed whose score is >= its own
RECURSIVE InsertDesc(_, _, _)
InsertDesc(sorted, key, score) ==
    IF sorted = <<>> THEN <<key>>
    ELSE IF score[Head(sorted)] >= score[key]
         THEN <<Head(sorted)>> \o InsertDesc(Tail(sorted), key, score)
         ELSE <<key>> \o sorted

\* Faulty variant of SortedKeys: the keys in dictionary order, unsorted
UnsortedKeys(keys, score) == keys

\* sorted(scores.keys(), key=scores.get, reverse=True): Python's sort is stable
\* and reverse=True keeps the original order of equal elements
RECURSIVE SortedKeys(_, _)
SortedKeys(keys, score) ==
    IF keys = <<>> THEN <<>>
    ELSE LET n == Len(keys)
         IN InsertDesc(SortedKeys(SubSeq(keys, 1, n - 1), score), keys[n], score)

\* seq[:k] for k >= 0
Take(seq, k) == SubSeq(seq, 1, Min(k, Len(seq)))

\* The dictionaries _rrf_fusion has built when both loops are done
FusionTables(vec_results, bm25_results, c) ==
    LET scale == ScoreScale(c, Max(Len(vec_results), Len(bm25_results)))
        start == [scores |-> EmptyDict, doc_lookup |-> <<>>, raised |-> FALSE]
        afterVec == ProcessVector(start, vec_results, 0, c, scale)
    IN [tables |-> ProcessBM25(afterVec, bm25_results, 0, c, scale), scale |-> scale]

\* Faulty variant of _rrf_fusion: the fused score is written into the
\* metadata of the document itself
_rrf_fusion_writing_to_doc(vec_results, bm25_results, k, c) ==
    LET ft == FusionTables(vec_results, bm25_results, c)
        t == ft.tables
        top == Take(SortedKeys(t.scores.keys, t.scores.map), k)
    IN IF t.raised
       THEN [raised |-> TRUE, results |-> <<>>]
       ELSE [raised |-> FALSE,
             results |->
               [i \in 1..Len(top) |->
                  LET m == t.doc_lookup[top[i]].metadata
                      doc == t.doc_lookup[top[i]].doc
                      score == [num |-> t.scores.map[top[i]], den |-> ft.scale]
                  IN [doc |-> [doc EXCEPT !.metadata =
                                 [source |-> doc.metadata.source,
                                  rrf_score |-> score]],
                      metadata |-> [vector_score |-> m.vector_score,
                                    vector_rank |-> m.vector_rank,
                                    bm25_rank |-> m.bm25_rank,
                                    sources |-> m.sources,
                                    rrf_score |-> score]]]]

\* _rrf_fusion(vec_results, bm25_results, k, c): raises (KeyError), or returns
\* the top k (doc, metadata) pairs with metadata["rrf_score"] = scores[key]
\* (the fraction num/den).  A metadata key that is not set is 0 here: ranks
\* are 1-based, and vector_score is read by no one when vector_rank is unset.
_rrf_fusion(vec_results, bm25_results, k, c) ==
    LET ft == FusionTables(vec_results, bm25_results, c)
        t == ft.tables
        top == Take(SortedKeys(t.scores.keys, t.scores.map), k)
    IN IF t.raised
       THEN [raised |-> TRUE, results |-> <<>>]
       ELSE [raised |-> FALSE,
             results |->
               [i \in 1..Len(top) |->
                  LET m == t.doc_lookup[top[i]].metadata
                  IN [doc |-> t.doc_lookup[top[i]].doc,
                      metadata |-> [vector_score |-> m.vector_score,
                                    vector_rank |-> m.vector_rank,
                                    bm25_rank |-> m.bm25_rank,
                                    sources |-> m.sources,
                                    rrf_score |-> [num |-> t.scores.map[top[i]],
                                                   den |-> ft.scale]]]]]

\* c: int = 60
DefaultC == 60

(***************************************************************************)
(* Exceptions.  CustomException.__init__(self, error_message, error_detail)*)
(* has no parameter named detail, so every `raise X("...", detail=str(e))` *)
(* of the repository fails in the constructor call and what propagates is  *)
(* a TypeError, not an X.                                                  *)
(***************************************************************************)
\* def __init__(self, error_message, error_detail: sys)
CustomExceptionParams == <<"error_message", "error_detail">>

\* cls(*args, **keywords) with `positional` positional arguments: Python binds
\* the arguments to the parameters of __init__ and raises TypeError when a
\* keyword names no parameter, names one already bound, or a parameter is
\* left unbound; otherwise the object is an instance of cls.
Construct(cls, positional, keywords) ==
    LET params == {CustomExceptionParams[i] : i \in DOMAIN CustomExceptionParams}
        byPosition == {CustomExceptionParams[i] :
                         i \in 1..Min(positional, Len(CustomExceptionParams))}
    IN IF /\ positional <= Len(CustomExceptionParams)
          /\ keywords \subseteq params \ byPosition
          /\ byPosition \cup keywords = params
       THEN cls
       ELSE "TypeError"

\* raise cls("...", detail=str(e)): what reaches the caller
RaiseWithDetail(cls) == Construct(cls, 1, {"detail"})

(***************************************************************************)
(* ChromaStore                                                             *)
(***************************************************************************)
\* hashlib.sha256(f"{source}_{content}_{time.time()}".encode()).hexdigest()[:16]:
\* the three values formatted into one string, then hashed; the hash is taken
\* to be collision-free on the strings of the model
sha256(text) == "sha256:" \o text

\* Faulty variant of _generate_id: the instant is left out of the hashed string
_generate_id_without_instant(content, source, now) ==
    sha256(source \o "_" \o content)

_generate_id(content, source, now) ==
    sha256(source \o "_" \o content \o "_" \o ToString(now))

\* batch_size = 100 in the source, scaled to 2 so that a call of MaxBatch
\* documents is split into more than one sub-batch
batch_size == 2

StoreIds(st) == {st[i].id : i \in DOMAIN st}

HasDuplicates(ids) == \E i, j \in DOMAIN ids : i < j /\ ids[i] = ids[j]

\* Chroma's collection.upsert on ids it has validated to be unique: a stored
\* id is overwritten in place, a new one is appended
RECURSIVE Upsert(_, _, _)
Upsert(st, docs, ids) ==
    IF docs = <<>> THEN st
    ELSE LET chunk == [id |-> Head(ids),
                       page_content |-> Head(docs).page_content,
                       metadata |-> Head(docs).metadata]
             st1 == IF Head(ids) \in StoreIds(st)
                    THEN [i \in DOMAIN st |->
                            IF st[i].id = Head(ids) THEN chunk ELSE st[i]]
                    ELSE Append(st, chunk)
         IN Upsert(st1, Tail(docs), Tail(ids))

\* for i in range(0, len(new_docs), batch_size): store.add_documents(...)
\* acc.calls records each call made to the store: the ids handed over and the
\* ids the store held at that moment.  The call numbered failAt finds the
\* store unreachable; a call with a repeated id is refused by Chroma
\* (DuplicateIDError).  Either ends the loop with the exception.
RECURSIVE AddBatches(_, _, _, _, _)
AddBatches(acc, new_docs, new_ids, i, failAt) ==
    IF i >= Len(new_docs) THEN acc
    ELSE LET last == Min(i + batch_size, Len(new_docs))
             batch_docs == SubSeq(new_docs, i + 1, last)
             batch_ids == SubSeq(new_ids, i + 1, last)
             calls == Append(acc.calls,
                             [ids |-> batch_ids, present |-> StoreIds(acc.store)])
         IN IF Len(calls) = failAt \/ HasDuplicates(batch_ids)
            THEN [store |-> acc.store, calls |-> calls, raised |-> TRUE]
            ELSE AddBatches([store |-> Upsert(acc.store, batch_docs, batch_ids),
                             calls |-> calls, raised |-> FALSE],
                            new_docs, new_ids, i + batch_size, failAt)

\* the indices of the documents whose id is not in existing_ids, in order
RECURSIVE NewIndices(_, _, _)
NewIndices(ids, existing_ids, i) ==
    IF i > Len(ids) THEN <<>>
    ELSE (IF ids[i] \notin existing_ids THEN <<i>> ELSE <<>>)
         \o NewIndices(ids, existing_ids, i + 1)

\* ChromaStore.add_documents(documents), the i-th call of time.time() returning
\* instants[i].  failAt = 0: the embedder check or the read of the existing
\* ids fails; failAt = j > 0: the j-th write to the store fails.
add_documents(st, documents, instants, failAt) ==
    IF documents = <<>>
    THEN [store |-> st, calls |-> <<>>, outcome |-> "return", error |-> None]
    ELSE IF failAt = 0
    THEN [store |-> st, calls |-> <<>>, outcome |-> "raise",
          error |-> RaiseWithDetail("VectorStoreError")]
    ELSE LET ids == [i \in DOMAIN documents |->
                       _generate_id(documents[i].page_content,
                                    documents[i].metadata.source, instants[i])]
             existing_ids == StoreIds(st)
             keep == NewIndices(ids, existing_ids, 1)
             new_docs == [j \in DOMAIN keep |-> documents[keep[j]]]
             new_ids == [j \in DOMAIN keep |-> ids[keep[j]]]
             r == AddBatches([store |-> st, calls |-> <<>>, raised |-> FALSE],
                             new_docs, new_ids, 0, failAt)
         IN [store |-> r.store, calls |-> r.calls,
             outcome |-> IF r.raised THEN "raise" ELSE "return",
             error |-> IF r.raised THEN RaiseWithDetail("VectorStoreError")
                       ELSE None]

(***************************************************************************)
(* HybridSearch                                                            *)
(***************************************************************************)
\* Faulty variant of build_bm25: a build that fails still sets an index
build_bm25_index_on_failure(st, old_docs_map, fail) ==
    LET new_docs_map == [i \in DOMAIN st |->
                           Document(st[i].page_content, st[i].metadata)]
    IN [docs_map |-> new_docs_map,
        bm25_index |-> IF st = <<>> THEN NoneIndex
                       ELSE [built |-> TRUE,
                             corpus |-> [i \in DOMAIN st |-> st[i].page_content]],
        completed |-> fail = "none"]

\* Faulty variant of build_bm25: the last chunk of the store is not indexed
build_bm25_dropping_last(st, old_docs_map, fail) ==
    LET new_docs_map == [i \in 1..(Len(st) - 1) |->
                           Document(st[i].page_content, st[i].metadata)]
    IN [docs_map |-> new_docs_map,
        bm25_index |-> IF new_docs_map = <<>> THEN NoneIndex
                       ELSE [built |-> TRUE,
                             corpus |-> [i \in DOMAIN new_docs_map |->
                                           new_docs_map[i].page_content]],
        completed |-> fail = "none"]

\* build_bm25.  fail = "get": vectorstore.get raises; fail = "index": the
\* tokenizer or BM25Okapi raises after docs_map was assigned; "none": neither.
\* The index is represented by the corpus it was built over.
build_bm25(st, old_docs_map, fail) ==
    IF fail = "get"
    THEN [docs_map |-> old_docs_map, bm25_index |-> NoneIndex,
          completed |-> FALSE]
    ELSE IF st = <<>>
    THEN [docs_map |-> <<>>, bm25_index |-> NoneIndex, completed |-> TRUE]
    ELSE LET new_docs_map == [i \in DOMAIN st |->
                                Document(st[i].page_content, st[i].metadata)]
         IN IF fail = "index"
            THEN [docs_map |-> new_docs_map, bm25_index |-> NoneIndex,
                  completed |-> FALSE]
            ELSE [docs_map |-> new_docs_map,
                  bm25_index |-> [built |-> TRUE,
                                  corpus |-> [i \in DOMAIN new_docs_map |->
                                                new_docs_map[i].page_content]],
                  completed |-> TRUE]

\* Faulty variant of bm25_available: only docs_map is tested
bm25_available_docs_only(index, dmap) == dmap # <<>>

\* if self.bm25_index and self.docs_map
bm25_available(index, dmap) == index # NoneIndex /\ dmap # <<>>

\* the first m places of the rankings of n items (all n places when m > n):
\* what a ranker asked for its top m can return
Orders(n, m) ==
    {s \in [1..Min(m, n) -> 1..n] : \A i, j \in DOMAIN s : i # j => s[i] # s[j]}

\* vectorstore.similarity_search_with_score(query, k=n): the n nearest stored
\* chunks (all of them when fewer are stored), nearest first.  The query and
\* the embedding decide the order: order is that ranking of the whole store.
\* The score is a distance that grows with the rank.
similarity_search_with_score(st, order, n) ==
    [i \in 1..Min(n, Len(st)) |-> [doc |-> st[order[i]], score |-> i]]

\* bm25_index.get_top_n(tokenized_query, docs_map, n): argsort of the scores
\* of the whole corpus, best first, cut to n, mapped to docs_map
get_top_n(dmap, order, n) == [i \in 1..Min(n, Len(dmap)) |-> dmap[order[i]]]

\* HybridSearch.search(query, k); vfail: the vector sub-search raises
search(st, index, dmap, k, vorder, border, vfail) ==
    IF vfail
    THEN [outcome |-> "raise", error |-> RaiseWithDetail("RetrievalError"),
          path |-> None, vec_results |-> <<>>, bm25_results |-> <<>>,
          results |-> <<>>]
    ELSE LET vec_results == similarity_search_with_score(st, vorder, k * 2)
             usable == bm25_available(index, dmap)
         IN IF usable /\ index = NoneIndex
            THEN \* None.get_top_n: AttributeError, caught by the handler
                 [outcome |-> "raise", error |-> RaiseWithDetail("RetrievalError"),
                  path |-> None, vec_results |-> vec_results,
                  bm25_results |-> <<>>, results |-> <<>>]
            ELSE LET bm25_results == IF usable THEN get_top_n(dmap, border, k * 2)
                                     ELSE <<>>
                 IN IF bm25_results = <<>>
                    THEN [outcome |-> "return", error |-> None,
                          path |-> "vector_only",
                          vec_results |-> vec_results, bm25_results |-> <<>>,
                          results |-> [i \in DOMAIN Take(vec_results, k) |->
                                         [doc |-> vec_results[i].doc,
                                          metadata |-> [source |-> "vector_only",
                                                        score |-> vec_results[i].score]]]]
                    ELSE LET f == _rrf_fusion(vec_results, bm25_results,
                                                k, DefaultC)
                         IN [outcome |-> IF f.raised THEN "raise" ELSE "return",
                             error |-> IF f.raised
                                       THEN RaiseWithDetail("RetrievalError")
                                       ELSE None,
                             path |-> "fused",
                             vec_results |-> vec_results,
                             bm25_results |-> bm25_results,
                             results |-> f.results]

(***************************************************************************)
(* Preprocessor (src/ingestion/preprocess.py).  A text is a sequence of    *)
(* tokens: a character (" ", "x", the null byte "NUL"), a word, or "url",  *)
(* which stands for a piece of text that one of the removal patterns of    *)
(* TextCleaner matches (an e-mail address, a phone number, a URL).         *)
(***************************************************************************)
Whitespace == {" "}

\* the characters of a token
CharLen(tok) ==
    CASE tok = "tree" -> 4
      [] tok = "python" -> 6
      [] tok = "Python" -> 6
      [] tok = "rest" -> 4
      [] tok = "url" -> 3
      [] OTHER -> 1

\* len(text)
RECURSIVE len(_)
len(text) == IF text = <<>> THEN 0 ELSE CharLen(Head(text)) + len(Tail(text))

\* the string a text stands for
RECURSIVE text_of(_)
text_of(text) == IF text = <<>> THEN "" ELSE Head(text) \o text_of(Tail(text))

RECURSIVE lstrip(_)
lstrip(text) ==
    IF text # <<>> /\ Head(text) \in Whitespace THEN lstrip(Tail(text)) ELSE text

RECURSIVE rstrip(_)
rstrip(text) ==
    IF text # <<>> /\ text[Len(text)] \in Whitespace
    THEN rstrip(SubSeq(text, 1, Len(text) - 1))
    ELSE text

\* text.strip()
strip(text) == rstrip(lstrip(text))

\* text without the tokens in S
RECURSIVE Remove(_, _)
Remove(text, S) ==
    IF text = <<>> THEN <<>>
    ELSE (IF Head(text) \in S THEN <<>> ELSE <<Head(text)>>) \o Remove(Tail(text), S)

\* re.sub(r"\s+", " ", text): every run of whitespace becomes one space
RECURSIVE Collapse(_)
Collapse(text) ==
    IF text = <<>> THEN <<>>
    ELSE IF Head(text) \in Whitespace
    THEN <<" ">> \o Collapse(lstrip(text))
    ELSE <<Head(text)>> \o Collapse(Tail(text))

\* TextCleaner.clean
clean(text) == strip(Collapse(Remove(Remove(text, {"NUL"}), {"url"})))

\* class Domain(Enum), in definition order
Domain ==
    <<"programming", "dsa", "system_design", "iot", "web_development",
      "ml_ai", "gen_ai", "data_science", "general">>

DomainValues == {Domain[i] : i \in DOMAIN Domain}

\* DomainDetector.KEYWORDS: the single-word keywords of each domain (a keyword
\* of several words, such as "big o", matches no single token)
KEYWORDS ==
    [d \in DomainValues |->
       CASE d = "programming" -> {"python", "java", "function", "class",
                                   "import", "def", "return"}
         [] d = "dsa" -> {"algorithm", "complexity", "tree", "graph", "sorting",
                           "dfs", "bfs"}
         [] d = "system_design" -> {"scalability", "database", "sharding",
                                     "microservices"}
         [] d = "iot" -> {"sensor", "arduino", "mqtt", "esp32", "gpio", "voltage"}
         [] d = "web_development" -> {"http", "api", "rest", "react", "html",
                                       "css", "json", "endpoint"}
         [] d = "ml_ai" -> {"transformer", "pytorch", "training", "inference"}
         [] d = "gen_ai" -> {"llm", "generative", "gpt", "bert", "diffusion",
                              "rag", "hallucination"}
         [] d = "data_science" -> {"dataframe", "pandas", "visualization",
                                    "statistics", "outlier", "regression"}
         [] OTHER -> {}]

\* str.lower() on a token
lower(tok) == IF tok = "Python" THEN "python" ELSE tok

\* scores[domain]: the matches of the domain's keywords in text.lower(); the
\* word boundaries of the pattern make a keyword match whole tokens only
KeywordScore(text, d) ==
    Cardinality({i \in DOMAIN text : lower(text[i]) \in KEYWORDS[d]})

\* Faulty variant of BestDomain: of the domains with the highest score, the
\* last in the enumeration
BestDomain_last_of_ties(text) ==
    LET top == CHOOSE m \in 0..Len(text) :
                 /\ \E i \in DOMAIN Domain : KeywordScore(text, Domain[i]) = m
                 /\ \A i \in DOMAIN Domain : KeywordScore(text, Domain[i]) <= m
        last == CHOOSE i \in DOMAIN Domain :
                  /\ KeywordScore(text, Domain[i]) = top
                  /\ \A j \in (i + 1)..Len(Domain) : KeywordScore(text, Domain[j]) # top
    IN Domain[last]

\* max(scores, key=scores.get): the first domain, in the order of the
\* dictionary (the order of the enumeration), whose score is the highest
BestDomain(text) ==
    LET top == CHOOSE m \in 0..Len(text) :
                 /\ \E i \in DOMAIN Domain : KeywordScore(text, Domain[i]) = m
                 /\ \A i \in DOMAIN Domain : KeywordScore(text, Domain[i]) <= m
        first == CHOOSE i \in DOMAIN Domain :
                   /\ KeywordScore(text, Domain[i]) = top
                   /\ \A j \in 1..(i - 1) : KeywordScore(text, Domain[j]) # top
    IN Domain[first]

\* DomainDetector.detect
detect(text) ==
    LET best_domain == BestDomain(text)
    IN IF KeywordScore(text, best_domain) > 0 THEN best_domain ELSE "general"

\* The pieces a text is cut into at the positions in cuts (a cut at i parts
\* token i from token i + 1), in order
RECURSIVE Pieces(_, _, _)
Pieces(text, cuts, from) ==
    IF from > Len(text) THEN <<>>
    ELSE LET later == {c \in cuts : c >= from}
             to == IF later = {} THEN Len(text)
                   ELSE CHOOSE c \in later : \A d \in later : c <= d
         IN <<SubSeq(text, from, to)>> \o Pieces(text, cuts, to + 1)

\* Chunker.split(doc, domain): RecursiveCharacterTextSplitter is a library;
\* where it cuts depends on the chunk size of the domain and on lengths far
\* above those of the model, so the cuts are an input.  Every chunk gets a
\* copy of the metadata of the document; an empty text gives no chunk.
split(doc, domain, cuts) ==
    LET pieces == Pieces(doc.page_content, cuts, 1)
    IN [i \in DOMAIN pieces |-> Document(pieces[i], doc.metadata)]

\* Faulty variant of merge: a key the document already has keeps its value
merge_keeping_existing(doc_metadata, extra_metadata, now) ==
    [key \in DOMAIN doc_metadata \cup DOMAIN extra_metadata \cup {"processed_at"} |->
       IF key \in DOMAIN doc_metadata THEN doc_metadata[key]
       ELSE IF key \in DOMAIN extra_metadata THEN extra_metadata[key]
       ELSE now]

\* MetadataMerger.merge, time.time() returning now.  A dictionary is a
\* function from its keys.
merge(doc_metadata, extra_metadata, now) ==
    LET combined == [key \in DOMAIN doc_metadata \cup DOMAIN extra_metadata |->
                       IF key \in DOMAIN extra_metadata THEN extra_metadata[key]
                       ELSE doc_metadata[key]]
    IN IF "processed_at" \notin DOMAIN combined
       THEN [key \in DOMAIN combined \cup {"processed_at"} |->
               IF key = "processed_at" THEN now ELSE combined[key]]
       ELSE combined

\* the chunks process_file makes of one loaded document; doc.fail: cleaning,
\* detection or splitting raises, and the document is skipped (lines 275-279)
DocChunks(doc, file_path, now) ==
    IF doc.fail THEN <<>>
    ELSE LET cleaned_text == clean(doc.page_content)
             domain == detect(cleaned_text)
             chunks == split([doc EXCEPT !.page_content = cleaned_text], domain,
                             doc.cuts \cap 1..(Len(cleaned_text) - 1))
         IN [i \in DOMAIN chunks |->
               Document(chunks[i].page_content,
                        merge(chunks[i].metadata,
                              [domain |-> domain, source |-> file_path,
                               char_count |-> len(chunks[i].page_content)],
                              now))]

RECURSIVE FileChunks(_, _, _)
FileChunks(docs, file_path, now) ==
    IF docs = <<>> THEN <<>>
    ELSE DocChunks(Head(docs), file_path, now) \o FileChunks(Tail(docs), file_path, now)

\* Preprocessor.process_file.  file.load = "missing": the file is gone when
\* FileLoader.load looks for it (FileNotFoundError, line 211), and the handler
\* at 286-288 raises; "error": the loader raises and load returns [].
process_file(file, now) ==
    IF file.load = "missing"
    THEN [raised |-> TRUE, error |-> RaiseWithDetail("IngestionError"),
          chunks |-> <<>>]
    ELSE IF file.load = "error" \/ file.docs = <<>>
    THEN [raised |-> FALSE, error |-> None, chunks |-> <<>>]
    ELSE [raised |-> FALSE, error |-> None,
          chunks |-> FileChunks(file.docs, file.name, now)]

(***************************************************************************)
(* IngestionPipeline (src/ingestion/pipeline.py)                           *)
(***************************************************************************)
SUPPORTED_EXTENSIONS ==
    {".pdf", ".txt", ".md", ".py", ".js", ".java", ".cpp", ".c", ".h"}

_is_supported_file(file) == file.ext \in SUPPORTED_EXTENSIONS

\* [c for c in file_chunks if c.metadata and len(c.page_content.strip()) > 0]
RECURSIVE ValidChunks(_)
ValidChunks(file_chunks) ==
    IF file_chunks = <<>> THEN <<>>
    ELSE (IF DOMAIN Head(file_chunks).metadata # {}
             /\ len(strip(Head(file_chunks).page_content)) > 0
          THEN <<Head(file_chunks)>> ELSE <<>>)
         \o ValidChunks(Tail(file_chunks))

NewStats ==
    [total_files |-> 0, processed_files |-> 0, failed_files |-> 0,
     total_chunks |-> 0, success |-> TRUE, error |-> None,
     files_processed |-> <<>>, files_failed |-> <<>>]

\* stats["files_failed"].append(...); stats["failed_files"] += 1
RecordFailure(stats, file, reason) ==
    [stats EXCEPT !.files_failed = Append(@, [file |-> file.name, reason |-> reason]),
                  !.failed_files = @ + 1]

\* One turn of the loop of run (lines 70-124) on file, r being what
\* process_file(fpath) gives when it is called.
\* file.size = "error": os.path.getsize raises (the file is a dangling link
\* or was removed since os.walk listed it); the call is outside the try of
\* line 88, so the exception leaves run.
ProcessOneFile(acc, file, r) ==
    LET counted == [acc.stats EXCEPT !.total_files = @ + 1]
        valid_chunks == ValidChunks(r.chunks)
    IN IF ~_is_supported_file(file) THEN acc
       ELSE IF file.size = "error"
       THEN [acc EXCEPT !.escaped = "OSError"]
       ELSE IF file.size = "large"
       THEN [acc EXCEPT !.stats = RecordFailure(@, file, "File too large")]
       ELSE IF r.raised
       THEN [acc EXCEPT !.stats = RecordFailure(counted, file, r.error)]
       ELSE IF r.chunks = <<>>
       THEN [acc EXCEPT !.stats = RecordFailure(counted, file,
                                                "No chunks produced")]
       ELSE IF valid_chunks # <<>>
       THEN [acc EXCEPT
               !.all_chunks = @ \o valid_chunks,
               !.stats = [counted EXCEPT
                            !.processed_files = @ + 1,
                            !.files_processed =
                              Append(@, [file |-> file.name,
                                         chunks |-> Len(valid_chunks)])]]
       ELSE [acc EXCEPT !.stats = counted]

\* The processing phase of run (lines 68-124) from the i-th file on; an
\* exception that left the loop ends it.
RECURSIVE ProcessingPhase(_, _, _, _)
ProcessingPhase(acc, files, i, now) ==
    IF i > Len(files) \/ acc.escaped # None THEN acc
    ELSE ProcessingPhase(ProcessOneFile(acc, files[i], process_file(files[i], now)),
                         files, i + 1, now)

\* what the processing phase leaves: the statistics, the chunks to store,
\* and the exception that left the loop, if one did
Processed(folder, now) ==
    ProcessingPhase([stats |-> NewStats, all_chunks |-> <<>>, escaped |-> None],
                    folder.files, 1, now)

\* the documents as the store receives them: page_content as a string
StoreDocuments(all_chunks) ==
    [i \in DOMAIN all_chunks |->
       Document(text_of(all_chunks[i].page_content), all_chunks[i].metadata)]

\* Faulty variant of run: no test of the folder; listing a folder that does
\* not exist raises
run_without_folder_test(folder, st, now, instants, failAt) ==
    [outcome |-> "raise", error |-> "FileNotFoundError", value |-> None,
     store |-> st, passed |-> <<>>, calls |-> <<>>]

\* The storage phase of run (lines 126-147) on p, what the processing phase
\* left, and r, what add_documents(all_chunks) gives when it is called.
StoragePhase(p, st, r) ==
    IF p.escaped # None
    THEN [outcome |-> "raise", error |-> p.escaped, value |-> None,
          store |-> st, passed |-> <<>>, calls |-> <<>>]
    ELSE IF p.all_chunks # <<>>
    THEN IF r.outcome = "raise"
         THEN [outcome |-> "raise",
               error |-> RaiseWithDetail("IngestionError"),
               value |-> None, store |-> r.store,
               passed |-> p.all_chunks, calls |-> r.calls]
         ELSE [outcome |-> "return", error |-> None,
               value |-> [p.stats EXCEPT !.total_chunks = Len(p.all_chunks)],
               store |-> r.store, passed |-> p.all_chunks,
               calls |-> r.calls]
    ELSE [outcome |-> "return", error |-> None,
          value |-> [p.stats EXCEPT
                       !.success = FALSE,
                       !.error = "No valid chunks to ingest"],
          store |-> st, passed |-> <<>>, calls |-> <<>>]

\* self.store.add_documents(all_chunks) on what the processing phase left
StoreChunks(p, st, instants, failAt) ==
    add_documents(st, StoreDocuments(p.all_chunks), instants, failAt)

\* the two phases of run on p, what the processing phase left
Phases(p, st, instants, failAt) ==
    StoragePhase(p, st, StoreChunks(p, st, instants, failAt))

\* IngestionPipeline.run(folder_path) over the store st.  passed: the chunks
\* handed to add_documents.
run(folder, st, now, instants, failAt) ==
    IF ~folder.exists
    THEN [outcome |-> "return", error |-> None,
          value |-> [success |-> FALSE, error |-> "Folder not found"],
          store |-> st, passed |-> <<>>, calls |-> <<>>]
    ELSE Phases(Processed(folder, now), st, instants, failAt)

(***************************************************************************)
(* Spec: the running system.  Init is the state after HybridSearch() was   *)
(* constructed over an empty store (build_bm25 found no documents).        *)
(***************************************************************************)
MaxIngest == 2     \* Spec: documents in one add_documents call
MaxBatch == 3      \* SpecStore: documents in one add_documents call

Seqs(S, n) == UNION {[1..m -> S] : m \in 0..n}

\* what the pipeline hands to add_documents: page_content and a metadata
\* mapping with the source
Docs == {Document(t, [source |-> s]) : t \in Texts, s \in Sources}

NonDecreasing(ts) == \A i \in 1..(Len(ts) - 1) : ts[i] <= ts[i + 1]

NoCall == [vec_results |-> <<>>, bm25_results |-> <<>>, k |-> 0, c |-> DefaultC,
           done |-> FALSE, raised |-> FALSE, out |-> <<>>]

NoRet == [op |-> "none"]

\* no thread is inside a call
NoThreads == [at |-> "none"]

\* MemoryManager(): no history, history_limit: int = 10
NoMemory == [history |-> <<>>, limit |-> 10, added |-> <<>>]

\* no operation is waiting to hand over its outcome: the next one may start
Idle == ret = NoRet

Init ==
    /\ store = <<>>
    /\ clock = 0
    /\ docs_map = <<>>
    /\ bm25_index = NoneIndex
    /\ built = <<>>
    /\ ret = NoRet
    /\ pc = NoThreads
    /\ memory = NoMemory
    /\ rrf = NoCall

\* ChromaStore.add_documents(documents) on a list of at most n documents
AddDocumentsOf(n) ==
    /\ Idle
    /\ \E documents \in Seqs(Docs, n) :
      \E instants \in [DOMAIN documents -> clock..MaxTime] :
        \E failAt \in 0..((Len(documents) + batch_size - 1) \div batch_size + 1) :
          /\ NonDecreasing(instants)
          /\ LET r == add_documents(store, documents, instants, failAt)
             IN /\ Len(r.store) <= MaxStore
                /\ store' = r.store
                /\ ret' = [op |-> "add_documents", documents |-> documents,
                           instants |-> instants, failAt |-> failAt,
                           before |-> store, clock |-> clock,
                           calls |-> r.calls,
                           outcome |-> r.outcome, error |-> r.error]
          /\ clock' = IF documents = <<>> THEN clock
                      ELSE instants[Len(instants)]
          /\ UNCHANGED <<docs_map, bm25_index, built, rrf, pc, memory>>

AddDocuments == AddDocumentsOf(MaxIngest)

\* HybridSearch.refresh()
Refresh ==
    /\ Idle
    /\ \E fail \in {"none", "get", "index"} :
      LET r == build_bm25(store, docs_map, fail)
      IN /\ docs_map' = r.docs_map
         /\ bm25_index' = r.bm25_index
         /\ built' = IF r.completed THEN store ELSE built
         /\ ret' = [op |-> "refresh", completed |-> r.completed]
         /\ UNCHANGED <<store, clock, rrf, pc, memory>>

\* docs_map as a call of search leaves it.  get_top_n returns the Document
\* objects of docs_map themselves, and the fusion hands on the object of a
\* text that only the keyword sub-search returned: the entry of docs_map at
\* place border[bm25_rank] is in the state the returned document is in.  (The
\* documents of the vector sub-search are made by Chroma for each query.)
docs_map_after(dmap, border, r) ==
    [p \in DOMAIN dmap |->
       LET returned == {j \in DOMAIN r.results :
                          /\ r.path = "fused"
                          /\ r.results[j].metadata.vector_rank = 0
                          /\ border[r.results[j].metadata.bm25_rank] = p}
       IN IF r.outcome = "return" /\ returned # {}
          THEN r.results[CHOOSE j \in returned : TRUE].doc
          ELSE dmap[p]]

\* HybridSearch.search(query, k)
Search ==
    /\ Idle
    /\ \E k \in 0..MaxK, vfail \in BOOLEAN :
      \E vorder \in Orders(Len(store), IF vfail THEN 0 ELSE k * 2),
         border \in Orders(Len(docs_map), IF vfail THEN 0 ELSE k * 2) :
        LET r == search(store, bm25_index, docs_map, k, vorder, border, vfail)
        IN /\ ret' = [op |-> "search", k |-> k, vfail |-> vfail,
                      outcome |-> r.outcome, error |-> r.error, path |-> r.path,
                      vec_results |-> r.vec_results,
                      bm25_results |-> r.bm25_results, results |-> r.results]
           /\ docs_map' = docs_map_after(docs_map, border, r)
           /\ UNCHANGED <<store, clock, bm25_index, built, rrf, pc, memory>>

\* the caller takes the outcome of the operation that ended
Return ==
    /\ ~Idle
    /\ ret' = NoRet
    /\ UNCHANGED <<store, clock, docs_map, bm25_index, built, rrf, pc, memory>>

Next == AddDocuments \/ Refresh \/ Search \/ Return

Spec == Init /\ [][Next]_vars

(***************************************************************************)
(* SpecStore: the chunk store under add_documents calls of up to MaxBatch  *)
(* documents, so that one call spans several sub-batches.                  *)
(***************************************************************************)
AddBatch == AddDocumentsOf(MaxBatch)

NextStore == AddBatch \/ Return

SpecStore == Init /\ [][NextStore]_vars

(***************************************************************************)
(* SpecStartup: the search service started over a persisted store of       *)
(* PersistedSize chunks (the singletons of api/routes.py, HybridSearch()   *)
(* after an ingestion in run_workflow.py): HybridSearch.__init__ has built *)
(* the keyword index over the whole store.  The store is any content that  *)
(* add_documents calls can leave: distinct ids, instants that do not       *)
(* decrease.                                                               *)
(***************************************************************************)
PersistedSize == 4

StoresOfSize(n) ==
    {[i \in 1..n |->
        [id |-> _generate_id(w[i][1], w[i][2], w[i][3]), page_content |-> w[i][1],
         metadata |-> [source |-> w[i][2]]]] :
       w \in {w \in [1..n -> Texts \X Sources \X (0..MaxTime)] :
                /\ \A i, j \in 1..n :
                     i # j => _generate_id(w[i][1], w[i][2], w[i][3])
                              # _generate_id(w[j][1], w[j][2], w[j][3])
                /\ \A i \in 1..(n - 1) : w[i][3] <= w[i + 1][3]}}

PersistedStores == StoresOfSize(PersistedSize)

InitStartup ==
    /\ store \in PersistedStores
    /\ clock = MaxTime
    /\ LET r == build_bm25(store, <<>>, "none")
       IN /\ docs_map = r.docs_map
          /\ bm25_index = r.bm25_index
    /\ built = store
    /\ ret = NoRet
    /\ pc = NoThreads
    /\ memory = NoMemory
    /\ rrf = NoCall

NextStartup == Refresh \/ Search \/ Return

SpecStartup == InitStartup /\ [][NextStartup]_vars

(***************************************************************************)
(* SpecSearch: searches on a HybridSearch constructed over a store of      *)
(* IndexedSize chunks, so that with k = 1 the two sub-searches can return  *)
(* different chunks.                                                       *)
(***************************************************************************)
IndexedSize == 3

InitSearch ==
    /\ store \in StoresOfSize(IndexedSize)
    /\ clock = MaxTime
    /\ \E r \in {build_bm25(store, <<>>, "none")} :
         /\ docs_map = r.docs_map
         /\ bm25_index = r.bm25_index
    /\ built = store
    /\ ret = NoRet
    /\ pc = NoThreads
    /\ memory = NoMemory
    /\ rrf = NoCall

NextSearch == Search \/ Return

SpecSearch == InitSearch /\ [][NextSearch]_vars

(***************************************************************************)
(* SpecRun: IngestionPipeline.run over an empty store, on a folder that     *)
(* does not exist or that holds up to MaxFiles files.  Each file is one of *)
(* FileKinds: unsupported, too large, unreadable at the size check, gone   *)
(* at load, refused by the loader, or loaded as the documents of RunDocs.  *)
(* The processing phase is taken to end within the instant it starts in;   *)
(* the instants at which the ids are generated are free.                   *)
(***************************************************************************)
MaxFiles == 2

RawDoc(text, meta, fail, cuts) ==
    [id |-> NoId, page_content |-> text, metadata |-> meta, fail |-> fail,
     cuts |-> cuts]

\* what a loader puts in the metadata of a document: the path alone
\* (TextLoader), or also keys that the pipeline sets itself (the metadata of
\* a PDF carries the keys of the file's own information dictionary)
PlainMetadata == [source |-> "loaded"]

ClashingMetadata ==
    [source |-> "loaded", domain |-> "unknown", char_count |-> 99,
     processed_at |-> 7]

\* the document lists a loader returns in SpecRun
RunDocs ==
    {<<RawDoc(<<" ", "NUL">>, PlainMetadata, FALSE, {})>>,
     <<RawDoc(<<"x">>, PlainMetadata, FALSE, {})>>,
     <<RawDoc(<<"url", " ", "Python">>, ClashingMetadata, FALSE, {})>>,
     <<RawDoc(<<"x">>, PlainMetadata, TRUE, {})>>,
     <<RawDoc(<<"x", " ", "url", " ", "tree", " ">>, PlainMetadata, FALSE, {})>>,
     <<RawDoc(<<"x", " ", "url", " ", "tree", " ">>, PlainMetadata, FALSE, {1, 2})>>,
     <<RawDoc(<<"x">>, PlainMetadata, TRUE, {}),
       RawDoc(<<"x">>, PlainMetadata, FALSE, {})>>}

FileKinds ==
    {[ext |-> ".bin", size |-> "ok", load |-> "ok", docs |-> <<>>],
     [ext |-> ".txt", size |-> "large", load |-> "ok", docs |-> <<>>],
     [ext |-> ".txt", size |-> "error", load |-> "ok", docs |-> <<>>],
     [ext |-> ".txt", size |-> "ok", load |-> "missing", docs |-> <<>>],
     [ext |-> ".txt", size |-> "ok", load |-> "error", docs |-> <<>>]}
    \cup {[ext |-> ".txt", size |-> "ok", load |-> "ok", docs |-> d] : d \in RunDocs}

\* the i-th file of a folder, of kind kind
NamedFile(kind, i) ==
    [name |-> "f" \o ToString(i) \o kind.ext, ext |-> kind.ext, size |-> kind.size,
     load |-> kind.load, docs |-> kind.docs]

Folders ==
    {[exists |-> FALSE, files |-> <<>>]}
    \cup {[exists |-> TRUE, files |-> [i \in DOMAIN kinds |-> NamedFile(kinds[i], i)]] :
            kinds \in Seqs(FileKinds, MaxFiles)}

\* IngestionPipeline.run(folder_path)
Run ==
    /\ Idle
    /\ store = <<>>
    /\ \E folder \in Folders :
         \E n \in {Len(Processed(folder, clock).all_chunks)} :
           \E instants \in [1..n -> clock..MaxTime] :
             \E failAt \in 0..((n + batch_size - 1) \div batch_size + 1) :
               /\ NonDecreasing(instants)
               /\ \E r \in {run(folder, store, clock, instants, failAt)} :
                    /\ store' = r.store
                    /\ ret' = [op |-> "run", folder |-> folder,
                               before |-> store, clock |-> clock,
                               instants |-> instants, failAt |-> failAt,
                               outcome |-> r.outcome, error |-> r.error,
                               value |-> r.value, passed |-> r.passed,
                               calls |-> r.calls]
               /\ clock' = IF n = 0 THEN clock ELSE instants[n]
               /\ UNCHANGED <<docs_map, bm25_index, built, rrf, pc, memory>>

NextRun == Run \/ Return

SpecRun == Init /\ [][NextRun]_vars

(***************************************************************************)
(* SpecRace: one refresh() and one search(q, k) on the same HybridSearch,  *)
(* each in a thread of its own, over a store that has grown since the      *)
(* index was built.  Each action is one read or one write of an attribute  *)
(* of the object; the code takes no lock, so the steps of the two threads  *)
(* interleave freely.  pc.refresh and pc.search hold the position and the  *)
(* local variables of each thread.                                         *)
(***************************************************************************)
DocsOf(st) == [i \in DOMAIN st |-> Document(st[i].page_content, st[i].metadata)]

IndexOver(dmap) ==
    [built |-> TRUE, corpus |-> [i \in DOMAIN dmap |-> dmap[i].page_content]]

InitRace ==
    /\ \E n \in 0..MaxStore : store \in StoresOfSize(n)
    /\ clock = MaxTime
    /\ \E m \in 0..Len(store) :
         LET r == build_bm25(SubSeq(store, 1, m), <<>>, "none")
         IN /\ docs_map = r.docs_map
            /\ bm25_index = r.bm25_index
            /\ built = SubSeq(store, 1, m)
    /\ ret = NoRet
    /\ rrf = NoCall
    /\ memory = NoMemory
    /\ \E k \in 1..MaxK :
         pc = [refresh |-> [at |-> "get", data |-> <<>>],
               search |-> [at |-> "test_index", k |-> k]]

\* the refresh thread moves to position at, with local data
RefreshGoes(at, data) ==
    pc' = [pc EXCEPT !.refresh = [at |-> at, data |-> data]]

\* line 58: data = self.vectorstore.get(...); when it raises, the handler
\* (line 85) is next
RefreshGet ==
    /\ pc.refresh.at = "get"
    /\ \/ RefreshGoes(IF store = <<>> THEN "clear_index" ELSE "set_docs", store)
       \/ RefreshGoes("failed", <<>>)
    /\ UNCHANGED <<store, clock, docs_map, bm25_index, built, ret, rrf, memory>>

\* line 62: self.bm25_index = None
RefreshClearIndex ==
    /\ pc.refresh.at = "clear_index"
    /\ bm25_index' = NoneIndex
    /\ RefreshGoes("clear_docs", pc.refresh.data)
    /\ UNCHANGED <<store, clock, docs_map, built, ret, rrf, memory>>

\* line 63: self.docs_map = []; return
RefreshClearDocs ==
    /\ pc.refresh.at = "clear_docs"
    /\ docs_map' = <<>>
    /\ built' = pc.refresh.data
    /\ RefreshGoes("done", <<>>)
    /\ UNCHANGED <<store, clock, bm25_index, ret, rrf, memory>>

\* lines 67-70: self.docs_map = [Document(...) ...]
RefreshSetDocs ==
    /\ pc.refresh.at = "set_docs"
    /\ docs_map' = DocsOf(pc.refresh.data)
    /\ RefreshGoes("set_index", pc.refresh.data)
    /\ UNCHANGED <<store, clock, bm25_index, built, ret, rrf, memory>>

\* lines 73-78: self.bm25_index = BM25Okapi(tokenized_corpus), the corpus read
\* from self.docs_map; when the tokenizer or BM25Okapi raises, the handler is
\* next
RefreshSetIndex ==
    /\ pc.refresh.at = "set_index"
    /\ \/ /\ bm25_index' = IndexOver(docs_map)
          /\ built' = pc.refresh.data
          /\ RefreshGoes("done", <<>>)
       \/ /\ RefreshGoes("failed", <<>>)
          /\ UNCHANGED <<bm25_index, built, memory>>
    /\ UNCHANGED <<store, clock, docs_map, ret, rrf, memory>>

\* line 85: self.bm25_index = None
RefreshFailed ==
    /\ pc.refresh.at = "failed"
    /\ bm25_index' = NoneIndex
    /\ RefreshGoes("done", <<>>)
    /\ UNCHANGED <<store, clock, docs_map, built, ret, rrf, memory>>

\* the search thread moves on, with its local variables changed as in locals
SearchGoes(locals) == pc' = [pc EXCEPT !.search = locals]

\* line 128, `self.bm25_index and ...`: the first read of the index; when it
\* is None the second operand is not evaluated
SearchTestIndex ==
    /\ pc.search.at = "test_index"
    /\ SearchGoes([at |-> IF bm25_index = NoneIndex THEN "rank" ELSE "test_docs",
                   k |-> pc.search.k, usable |-> FALSE,
                   index |-> NoneIndex, docs |-> <<>>])
    /\ UNCHANGED <<store, clock, docs_map, bm25_index, built, ret, rrf, memory>>

\* line 128, `... and self.docs_map`
SearchTestDocs ==
    /\ pc.search.at = "test_docs"
    /\ SearchGoes([pc.search EXCEPT
                     !.at = IF docs_map = <<>> THEN "rank" ELSE "read_index",
                     !.usable = docs_map # <<>>])
    /\ UNCHANGED <<store, clock, docs_map, bm25_index, built, ret, rrf, memory>>

\* line 130, `self.bm25_index.get_top_n`: the second read of the index
SearchReadIndex ==
    /\ pc.search.at = "read_index"
    /\ SearchGoes([pc.search EXCEPT !.at = "read_docs", !.index = bm25_index])
    /\ UNCHANGED <<store, clock, docs_map, bm25_index, built, ret, rrf, memory>>

\* line 131, the argument self.docs_map
SearchReadDocs ==
    /\ pc.search.at = "read_docs"
    /\ SearchGoes([pc.search EXCEPT !.at = "rank", !.docs = docs_map])
    /\ UNCHANGED <<store, clock, docs_map, bm25_index, built, ret, rrf, memory>>

\* The rest of search on what the thread has read.  None.get_top_n raises
\* AttributeError; get_top_n of rank_bm25 asserts that the documents it is
\* given are as many as the corpus of the index; both reach the handler of
\* line 156.  Otherwise search goes on as it does on one object state.
SearchRank ==
    /\ pc.search.at = "rank"
    /\ LET l == pc.search
       IN \E vorder \in Orders(Len(store), l.k * 2),
             border \in Orders(Len(l.docs), l.k * 2) :
            LET r == IF ~l.usable
                     THEN search(store, NoneIndex, <<>>, l.k, vorder, border, FALSE)
                     ELSE IF l.index = NoneIndex \/ Len(l.index.corpus) # Len(l.docs)
                     THEN [outcome |-> "raise",
                           error |-> RaiseWithDetail("RetrievalError"),
                           path |-> None, vec_results |-> <<>>,
                           bm25_results |-> <<>>, results |-> <<>>]
                     ELSE search(store, l.index, l.docs, l.k, vorder, border, FALSE)
            IN SearchGoes([at |-> "done", k |-> l.k, usable |-> l.usable,
                           index |-> l.index, docs |-> l.docs,
                           outcome |-> r.outcome, error |-> r.error,
                           path |-> r.path, results |-> r.results])
    /\ UNCHANGED <<store, clock, docs_map, bm25_index, built, ret, rrf, memory>>

NextRace ==
    \/ RefreshGet \/ RefreshClearIndex \/ RefreshClearDocs \/ RefreshSetDocs
    \/ RefreshSetIndex \/ RefreshFailed
    \/ SearchTestIndex \/ SearchTestDocs \/ SearchReadIndex \/ SearchReadDocs
    \/ SearchRank

SpecRace == InitRace /\ [][NextRace]_vars

(***************************************************************************)
(* SpecIngestRace: two calls of ChromaStore.add_documents on one persist   *)
(* directory, each in a thread (or process) of its own.  add_documents     *)
(* takes no lock and nothing queues or rejects a second call, so the calls *)
(* advance statement by statement in any order: the ids are generated      *)
(* (lines 82-85), the stored ids are read and the documents filtered       *)
(* (lines 87-103), then each sub-batch is written (lines 110-115).  One    *)
(* call of Chroma (get, add_documents) is taken to be atomic.              *)
(* pc[t] holds the locals of thread t; pc.interleaved records that a       *)
(* thread read or wrote the store while the other was between its read and *)
(* its last write.                                                         *)
(***************************************************************************)
MaxRaceDocs == 3   \* documents in one call: more than one sub-batch

Threads == {"first", "second"}

OtherThread(t) == IF t = "first" THEN "second" ELSE "first"

CallStarts(documents) ==
    [at |-> "ids", documents |-> documents, ids |-> <<>>, new_docs |-> <<>>,
     new_ids |-> <<>>, i |-> 0, existing_ids |-> {}, written |-> {},
     outcome |-> None, error |-> None]

InitIngestRace ==
    /\ store = <<>>
    /\ clock = 0
    /\ docs_map = <<>>
    /\ bm25_index = NoneIndex
    /\ built = <<>>
    /\ ret = NoRet
    /\ rrf = NoCall
    /\ memory = NoMemory
    /\ \E d1, d2 \in Seqs(Docs, MaxRaceDocs) :
         pc = [first |-> CallStarts(d1), second |-> CallStarts(d2),
               interleaved |-> FALSE]

\* thread t goes on with its locals changed to locals; touches is TRUE when the
\* step reads or writes the store
ThreadGoes(t, locals, touches) ==
    pc' = [pc EXCEPT ![t] = locals,
                     !.interleaved = @ \/ (touches /\ pc[OtherThread(t)].at = "write")]

CallReturns(l) == [l EXCEPT !.at = "done", !.outcome = "return"]

\* except Exception as e: raise VectorStoreError("...", detail=str(e))
CallRaises(l) ==
    [l EXCEPT !.at = "done", !.outcome = "raise",
              !.error = RaiseWithDetail("VectorStoreError")]

\* lines 64-85: the empty list returns at once; the embedder is tested (it may
\* fail); ids = [self._generate_id(...) for doc in documents]
GenerateIds(t) ==
    /\ pc[t].at = "ids"
    /\ LET l == pc[t]
       IN \/ /\ l.documents = <<>>
             /\ ThreadGoes(t, CallReturns(l), FALSE)
             /\ UNCHANGED clock
          \/ /\ l.documents # <<>>
             /\ ThreadGoes(t, CallRaises(l), FALSE)
             /\ UNCHANGED clock
          \/ /\ l.documents # <<>>
             /\ \E instants \in [DOMAIN l.documents -> clock..MaxTime] :
                  /\ NonDecreasing(instants)
                  /\ ThreadGoes(t,
                       [l EXCEPT !.at = "read",
                                 !.ids = [i \in DOMAIN l.documents |->
                                            _generate_id(l.documents[i].page_content,
                                                         l.documents[i].metadata.source,
                                                         instants[i])]],
                       FALSE)
                  /\ clock' = instants[Len(instants)]
    /\ UNCHANGED <<store, docs_map, bm25_index, built, ret, rrf, memory>>

\* lines 87-103: existing_ids = set(store.get()["ids"] or []), the filter, and
\* the return when nothing is new; store.get() may fail
ReadExisting(t) ==
    /\ pc[t].at = "read"
    /\ LET l == pc[t]
           existing_ids == StoreIds(store)
           keep == NewIndices(l.ids, existing_ids, 1)
           read == [l EXCEPT !.existing_ids = existing_ids,
                             !.new_docs = [j \in DOMAIN keep |-> l.documents[keep[j]]],
                             !.new_ids = [j \in DOMAIN keep |-> l.ids[keep[j]]]]
       IN \/ ThreadGoes(t, CallRaises(l), FALSE)
          \/ /\ keep = <<>>
             /\ ThreadGoes(t, CallReturns(read), TRUE)
          \/ /\ keep # <<>>
             /\ ThreadGoes(t, [read EXCEPT !.at = "write"], TRUE)
    /\ UNCHANGED <<store, clock, docs_map, bm25_index, built, ret, rrf, memory>>

\* lines 110-115, one turn of the loop: store.add_documents(batch_docs,
\* ids=batch_ids); Chroma refuses a call with a repeated id, and any call
\* may fail
WriteBatch(t) ==
    /\ pc[t].at = "write"
    /\ LET l == pc[t]
           last == Min(l.i + batch_size, Len(l.new_docs))
           batch_docs == SubSeq(l.new_docs, l.i + 1, last)
           batch_ids == SubSeq(l.new_ids, l.i + 1, last)
           wrote == [l EXCEPT !.i = last,
                              !.written = @ \cup {batch_ids[j] : j \in DOMAIN batch_ids}]
       IN \/ /\ ThreadGoes(t, CallRaises(l), FALSE)
             /\ UNCHANGED store
          \/ /\ ~HasDuplicates(batch_ids)
             /\ store' = Upsert(store, batch_docs, batch_ids)
             /\ ThreadGoes(t, IF last >= Len(l.new_docs) THEN CallReturns(wrote)
                              ELSE wrote, TRUE)
    /\ UNCHANGED <<clock, docs_map, bm25_index, built, ret, rrf, memory>>

FirstGenerateIds == GenerateIds("first")
FirstReadExisting == ReadExisting("first")
FirstWriteBatch == WriteBatch("first")
SecondGenerateIds == GenerateIds("second")
SecondReadExisting == ReadExisting("second")
SecondWriteBatch == WriteBatch("second")

NextIngestRace ==
    \/ FirstGenerateIds \/ FirstReadExisting \/ FirstWriteBatch
    \/ SecondGenerateIds \/ SecondReadExisting \/ SecondWriteBatch

SpecIngestRace == InitIngestRace /\ [][NextIngestRace]_vars

(***************************************************************************)
(* SpecMerge: MetadataMerger.merge on every pair of dictionaries over the  *)
(* keys below, with values in 0..MaxTime, and every instant.               *)
(***************************************************************************)
\* dictionaries with keys among keys and values among vals
Dicts(keys, vals) == UNION {[S -> vals] : S \in SUBSET keys}

DocMetadataKeys == {"processed_at", "page"}
ExtraMetadataKeys == {"processed_at", "char_count"}

\* One call of merge: its value and its two arguments as the call leaves
\* them.  combined is a copy (line 195) and the only object line 196 and
\* line 200 write.
Merge ==
    /\ Idle
    /\ \E doc_metadata \in Dicts(DocMetadataKeys, 0..MaxTime),
          extra_metadata \in Dicts(ExtraMetadataKeys, 0..MaxTime),
          now \in 0..MaxTime :
         ret' = [op |-> "merge", doc_metadata |-> doc_metadata,
                 extra_metadata |-> extra_metadata, now |-> now,
                 value |-> merge(doc_metadata, extra_metadata, now),
                 doc_after |-> doc_metadata, extra_after |-> extra_metadata]
    /\ UNCHANGED <<store, clock, docs_map, bm25_index, built, rrf, pc, memory>>

NextMerge == Merge \/ Return

SpecMerge == Init /\ [][NextMerge]_vars

(***************************************************************************)
(* SpecDetect: DomainDetector.detect on every text of at most MaxTokens    *)
(* tokens: keywords of three domains, one of them capitalised, and a word  *)
(* that is no keyword.                                                     *)
(***************************************************************************)
MaxTokens == 3

DetectTokens == {"python", "Python", "tree", "pandas", "word"}

Detect ==
    /\ Idle
    /\ \E text \in Seqs(DetectTokens, MaxTokens) :
         ret' = [op |-> "detect", text |-> text, domain |-> detect(text)]
    /\ UNCHANGED <<store, clock, docs_map, bm25_index, built, rrf, pc, memory>>

NextDetect == Detect \/ Return

SpecDetect == Init /\ [][NextDetect]_vars

(***************************************************************************)
(* SpecApi: the two handlers of api/routes.py over the module singletons   *)
(* (one IngestionPipeline, one HybridSearch), requests handled one after   *)
(* another, starting from an empty store.                                  *)
(***************************************************************************)
MaxApiStore == 3   \* chunks the store may hold in SpecApi
MaxApiK == 2       \* the k of a search request: 0..MaxApiK

\* x.page_content can be read: x is a Document, not a (doc, metadata) pair
IsDocument(x) == "page_content" \in DOMAIN x

\* POST /ingest/ (ingest_file) on the uploaded file.  saved = FALSE: writing
\* the upload to the temporary directory fails.  rfail: the failure of the
\* index build inside refresh, if any.  A raise anywhere in the body is
\* answered with status 500 (lines 62-64).
ingest_after_run(r, st, index, dmap, rfail) ==
    IF r.outcome = "raise"
    THEN [status |-> 500, store |-> r.store, docs_map |-> dmap,
          bm25_index |-> index, refreshed |-> FALSE, completed |-> FALSE]
    ELSE LET b == build_bm25(r.store, dmap, rfail)
         IN [status |-> 200, store |-> r.store, docs_map |-> b.docs_map,
             bm25_index |-> b.bm25_index, refreshed |-> TRUE,
             completed |-> b.completed]

ingest_file(file, st, index, dmap, now, instants, failAt, rfail, saved) ==
    IF ~saved
    THEN [status |-> 500, store |-> st, docs_map |-> dmap, bm25_index |-> index,
          refreshed |-> FALSE, completed |-> FALSE]
    ELSE ingest_after_run(run([exists |-> TRUE, files |-> <<file>>], st, now,
                              instants, failAt),
                          st, index, dmap, rfail)

\* POST /search/ (search_documents) on what search(question, k * 2) gave:
\* final_docs = candidates[:k]; the loop of lines 84-90 reads
\* doc.page_content of every element; then the answer is generated
\* (llmfail: the LLM call raises).  A raise is answered with status 500.
search_response(candidates, k, llmfail) ==
    IF candidates.outcome = "raise"
    THEN [status |-> 500, count |-> 0, results |-> <<>>]
    ELSE LET final_docs == Take(candidates.results, k)
         IN IF \E i \in DOMAIN final_docs : ~IsDocument(final_docs[i])
            THEN \* AttributeError: 'tuple' object has no attribute 'page_content'
                 [status |-> 500, count |-> 0, results |-> <<>>]
            ELSE IF llmfail
            THEN [status |-> 500, count |-> 0, results |-> <<>>]
            ELSE [status |-> 200, count |-> Len(final_docs),
                  results |-> [i \in DOMAIN final_docs |->
                                 [content |-> final_docs[i].page_content,
                                  metadata |-> final_docs[i].metadata,
                                  domain |-> IF "domain" \in DOMAIN final_docs[i].metadata
                                             THEN final_docs[i].metadata.domain
                                             ELSE "unknown"]]]

search_documents(st, index, dmap, k, vorder, border, vfail, llmfail) ==
    search_response(search(st, index, dmap, k * 2, vorder, border, vfail), k, llmfail)

\* a text file of three chunks: more than one sub-batch
ThreeChunks ==
    [ext |-> ".txt", size |-> "ok", load |-> "ok",
     docs |-> <<RawDoc(<<"x", " ", "tree", " ", "rest">>, PlainMetadata, FALSE,
                       {2, 4})>>]

\* the uploads of SpecApi: a file of an unsupported type, a file that is gone
\* when it is loaded, a file of one chunk and the file of three
UploadKinds ==
    {[ext |-> ".bin", size |-> "ok", load |-> "ok", docs |-> <<>>],
     [ext |-> ".txt", size |-> "ok", load |-> "missing", docs |-> <<>>],
     [ext |-> ".txt", size |-> "ok", load |-> "ok",
      docs |-> <<RawDoc(<<"x">>, PlainMetadata, FALSE, {})>>],
     ThreeChunks}

Ingest ==
    /\ Idle
    /\ \E kind \in UploadKinds, saved \in BOOLEAN, rfail \in {"none", "get", "index"} :
       \E file \in {NamedFile(kind, Len(store) + 1)} :
       \E n \in {Len(Processed([exists |-> TRUE, files |-> <<file>>], clock).all_chunks)} :
       \E instants \in [1..n -> clock..MaxTime] :
       \E failAt \in 0..((n + batch_size - 1) \div batch_size + 1) :
         /\ NonDecreasing(instants)
         /\ \E r \in {ingest_file(file, store, bm25_index, docs_map, clock,
                                  instants, failAt, rfail, saved)} :
              /\ Len(r.store) <= MaxApiStore
              /\ store' = r.store
              /\ docs_map' = r.docs_map
              /\ bm25_index' = r.bm25_index
              /\ built' = IF r.completed THEN r.store ELSE built
              /\ clock' = IF r.store = store THEN clock
                          ELSE Max(clock, instants[Len(r.store) - Len(store)])
              /\ ret' = [op |-> "ingest", file |-> file, before |-> store,
                         failAt |-> failAt, rfail |-> rfail, saved |-> saved,
                         status |-> r.status, refreshed |-> r.refreshed,
                         completed |-> r.completed]
         /\ UNCHANGED <<rrf, pc, memory>>

SearchDocuments ==
    /\ Idle
    /\ \E k \in 0..MaxApiK, vfail \in BOOLEAN, llmfail \in BOOLEAN :
       \E vorder \in Orders(Len(store), IF vfail THEN 0 ELSE k * 4),
          border \in Orders(Len(docs_map), IF vfail THEN 0 ELSE k * 4) :
       \E candidates \in {search(store, bm25_index, docs_map, k * 2, vorder,
                                 border, vfail)} :
       \E r \in {search_documents(store, bm25_index, docs_map, k, vorder, border,
                                  vfail, llmfail)} :
         ret' = [op |-> "search_documents", k |-> k, llmfail |-> llmfail,
                 searched |-> candidates.outcome,
                 candidates |-> candidates.results,
                 status |-> r.status, count |-> r.count, results |-> r.results]
    /\ UNCHANGED <<store, clock, docs_map, bm25_index, built, rrf, pc, memory>>

NextApi == Ingest \/ SearchDocuments \/ Return

SpecApi == Init /\ [][NextApi]_vars

(***************************************************************************)
(* MemoryManager (src/generation/memory.py).  A dictionary is a function   *)
(* from its keys; memory.history is self.history, memory.limit self.limit. *)
(***************************************************************************)
\* self.history.get(session_id, [])
get_history(history, session_id) ==
    IF session_id \in DOMAIN history THEN history[session_id] ELSE <<>>

\* seq[-n:] for n >= 0: the last n elements, all of them when there are
\* fewer; -0 is 0, so seq[-0:] is seq[0:], the whole list
LastSlice(seq, n) ==
    IF n = 0 THEN seq ELSE SubSeq(seq, Max(1, Len(seq) - n + 1), Len(seq))

\* add_message(session_id, role, content), time.time() returning now
add_message(history, limit, session_id, role, content, now) ==
    LET appended == Append(get_history(history, session_id),
                           [role |-> role, content |-> content, timestamp |-> now])
    IN [s \in DOMAIN history \cup {session_id} |->
          IF s # session_id THEN history[s]
          ELSE IF Len(appended) > limit THEN LastSlice(appended, limit)
          ELSE appended]

\* clear_history(session_id)
clear_history(history, session_id) ==
    [s \in DOMAIN history \ {session_id} |-> history[s]]

(***************************************************************************)
(* SpecMemory: one MemoryManager(history_limit) for each limit in          *)
(* 0..MaxLimit, under add_message, get_history and clear_history on the    *)
(* sessions of Sessions; at most MaxMessages messages are added to a       *)
(* session between two clears.                                             *)
(***************************************************************************)
MaxLimit == 2
MaxMessages == 3

Sessions == {"s1", "s2"}
Contents == {"x", "y"}

InitMemory ==
    /\ store = <<>>
    /\ clock = 0
    /\ docs_map = <<>>
    /\ bm25_index = NoneIndex
    /\ built = <<>>
    /\ ret = NoRet
    /\ pc = NoThreads
    /\ rrf = NoCall
    /\ \E history_limit \in 0..MaxLimit :
         memory = [history |-> <<>>, limit |-> history_limit,
                   added |-> [s \in Sessions |-> <<>>]]

AddMessage ==
    /\ Idle
    /\ \E session_id \in Sessions, content \in Contents, now \in clock..MaxTime :
         /\ Len(memory.added[session_id]) < MaxMessages
         /\ memory' =
              [memory EXCEPT
                 !.history = add_message(@, memory.limit, session_id, "user",
                                         content, now),
                 !.added[session_id] =
                   Append(@, [role |-> "user", content |-> content,
                              timestamp |-> now])]
         /\ clock' = now
    /\ UNCHANGED <<store, docs_map, bm25_index, built, ret, rrf, pc>>

ClearHistory ==
    /\ Idle
    /\ \E session_id \in Sessions :
         memory' = [memory EXCEPT !.history = clear_history(@, session_id),
                                  !.added[session_id] = <<>>]
    /\ UNCHANGED <<store, clock, docs_map, bm25_index, built, ret, rrf, pc>>

GetHistory ==
    /\ Idle
    /\ \E session_id \in Sessions :
         ret' = [op |-> "get_history", session_id |-> session_id,
                 value |-> get_history(memory.history, session_id)]
    /\ UNCHANGED <<store, clock, docs_map, bm25_index, built, rrf, pc, memory>>

NextMemory == AddMessage \/ ClearHistory \/ GetHistory \/ Return

SpecMemory == InitMemory /\ [][NextMemory]_vars

(***************************************************************************)
(* SpecRRF: _rrf_fusion on every pair of result lists of at most MaxList   *)
(* entries over RRFTexts (a text may repeat in a list: the store can hold  *)
(* the same content under several ids), every k in 0..MaxList+1 and every  *)
(* c in Cs.  Each vector result is a stored chunk of its own (its own id).  *)
(***************************************************************************)
RRFVec(texts) ==
    [i \in DOMAIN texts |->
       [doc |-> [id |-> _generate_id(texts[i], "s", i), page_content |-> texts[i],
                 metadata |-> [source |-> "s"]],
        score |-> i]]

RRFBm25(texts) == [i \in DOMAIN texts |-> Document(texts[i], [source |-> "s"])]

InitRRF ==
    /\ store = <<>>
    /\ clock = 0
    /\ docs_map = <<>>
    /\ bm25_index = NoneIndex
    /\ built = <<>>
    /\ ret = NoRet
    /\ pc = NoThreads
    /\ memory = NoMemory
    /\ \E v \in Seqs(RRFTexts, MaxList), b \in Seqs(RRFTexts, MaxList) :
         \E k \in 0..(MaxList + 1), c \in Cs :
           rrf = [vec_results |-> RRFVec(v), bm25_results |-> RRFBm25(b),
                  k |-> k, c |-> c, done |-> FALSE, raised |-> FALSE,
                  out |-> <<>>]

Fuse ==
    /\ ~rrf.done
    /\ LET f == _rrf_fusion(rrf.vec_results, rrf.bm25_results, rrf.k, rrf.c)
       IN rrf' = [rrf EXCEPT !.done = TRUE, !.raised = f.raised,
                             !.out = f.results]
    /\ UNCHANGED <<store, clock, docs_map, bm25_index, built, ret, pc, memory>>

NextRRF == Fuse

SpecRRF == InitRRF /\ [][NextRRF]_vars

(***************************************************************************)
(* Properties of _rrf_fusion, checked under SpecRRF.                       *)
(***************************************************************************)
\* _rrf_fusion was called and returned its list
Fused == rrf.done /\ ~rrf.raised

\* 0-based ranks at which text t occurs in each input list
VecRanks(t) ==
    {i - 1 : i \in {j \in DOMAIN rrf.vec_results :
                       rrf.vec_results[j].doc.page_content = t}}

Bm25Ranks(t) ==
    {i - 1 : i \in {j \in DOMAIN rrf.bm25_results :
                       rrf.bm25_results[j].page_content = t}}

InputTexts ==
    {rrf.vec_results[i].doc.page_content : i \in DOMAIN rrf.vec_results}
    \cup {rrf.bm25_results[i].page_content : i \in DOMAIN rrf.bm25_results}

OutText(i) == rrf.out[i].doc.page_content

OutTexts == {OutText(i) : i \in DOMAIN rrf.out}

\* the score an output entry reports, as a multiple of 1/InputScale
OutScore(i) == rrf.out[i].metadata.rrf_score.num

InputScale == ScoreScale(rrf.c, Max(Len(rrf.vec_results), Len(rrf.bm25_results)))

RECURSIVE SumRecip(_, _, _)
SumRecip(ranks, c, scale) ==
    IF ranks = {} THEN 0
    ELSE LET r == CHOOSE x \in ranks : TRUE
         IN Recip(c, r, scale) + SumRecip(ranks \ {r}, c, scale)

\* the fused score of text t obtained from the input lists: one contribution
\* per occurrence of t in either list
TotalScore(t) ==
    SumRecip(VecRanks(t), rrf.c, InputScale) + SumRecip(Bm25Ranks(t), rrf.c, InputScale)

SetMin(S) == CHOOSE x \in S : \A y \in S : x <= y

NoRepeats ==
    /\ \A i, j \in DOMAIN rrf.vec_results :
         i # j => rrf.vec_results[i].doc.page_content
                    # rrf.vec_results[j].doc.page_content
    /\ \A i, j \in DOMAIN rrf.bm25_results :
         i # j => rrf.bm25_results[i].page_content # rrf.bm25_results[j].page_content

\* C2 (as claimed): every fused entry found at vector rank rv and keyword rank
\* rb scores exactly 1/(c+rv) + 1/(c+rb), one found by a single sub-search at
\* rank r scores exactly 1/(c+r), for all input lists, also those in which a
\* chunk text occurs more than once; c defaults to 60.
C2_ScoreIsSumOfReciprocals ==
    /\ DefaultC = 60
    /\ Fused =>
         \A i \in DOMAIN rrf.out :
           LET V == VecRanks(OutText(i))
               B == Bm25Ranks(OutText(i))
           IN /\ \A rv \in V, rb \in B :
                   OutScore(i) = Recip(rrf.c, rv, InputScale)
                                 + Recip(rrf.c, rb, InputScale)
              /\ B = {} => \A r \in V : OutScore(i) = Recip(rrf.c, r, InputScale)
              /\ V = {} => \A r \in B : OutScore(i) = Recip(rrf.c, r, InputScale)

\* The formula of C2 does hold on the lists in which no text repeats.
C2_HoldsWithoutRepeats == NoRepeats => C2_ScoreIsSumOfReciprocals

\* C3 (as claimed): of two fused entries with equal score, the one with the
\* lower best rank in either sub-search comes first, and on equal best ranks
\* the one with the lower vector rank (an entry the vector sub-search did not
\* return ranks after those it did).
BestRank(t) == SetMin(VecRanks(t) \cup Bm25Ranks(t))

VecRankOrLast(t) == IF VecRanks(t) = {} THEN MaxList + 1 ELSE SetMin(VecRanks(t))

C3_TieByBestRank ==
    Fused =>
      \A i \in DOMAIN rrf.out : \A j \in DOMAIN rrf.out :
        (i < j /\ OutScore(i) = OutScore(j)) =>
          \/ BestRank(OutText(i)) < BestRank(OutText(j))
          \/ /\ BestRank(OutText(i)) = BestRank(OutText(j))
             /\ VecRankOrLast(OutText(i)) <= VecRankOrLast(OutText(j))

\* C3 (amended): of two fused entries with equal score, the one that entered
\* the score table first comes first: an entry returned by the vector
\* sub-search precedes a keyword-only one, two vector entries keep the order of
\* their first vector ranks, two keyword-only entries that of their first
\* keyword ranks.
C3_TieByInsertionOrder ==
    Fused =>
      \A i \in DOMAIN rrf.out : \A j \in DOMAIN rrf.out :
        (i < j /\ OutScore(i) = OutScore(j)) =>
          LET ti == OutText(i)
              tj == OutText(j)
          IN IF VecRanks(ti) # {}
             THEN VecRanks(tj) # {} => SetMin(VecRanks(ti)) < SetMin(VecRanks(tj))
             ELSE /\ VecRanks(tj) = {}
                  /\ SetMin(Bm25Ranks(ti)) < SetMin(Bm25Ranks(tj))

\* a tie in which the entry placed first has the worse best rank: it is in
\* both lists, the entry after it is keyword-only at a better rank
C3_Witness ==
    /\ Fused
    /\ NoRepeats
    /\ \E i \in DOMAIN rrf.out : \E j \in DOMAIN rrf.out :
         /\ i < j
         /\ OutScore(i) = OutScore(j)
         /\ VecRanks(OutText(i)) # {} /\ Bm25Ranks(OutText(i)) # {}
         /\ VecRanks(OutText(j)) = {}
         /\ BestRank(OutText(j)) < BestRank(OutText(i))

\* C4: the fused list is in non-increasing order of rrf_score, each reported
\* rrf_score is the entry's fused score, and no candidate left out of the
\* top k has a strictly higher fused score than a returned one.
C4_DescendingByScore ==
    Fused =>
      /\ \A i \in DOMAIN rrf.out : OutScore(i) = TotalScore(OutText(i))
      /\ \A i \in 1..(Len(rrf.out) - 1) : OutScore(i) >= OutScore(i + 1)
      /\ \A t \in InputTexts \ OutTexts :
           \A i \in DOMAIN rrf.out : TotalScore(t) <= OutScore(i)

\* a truncated fusion of candidates with three different scores
C4_Witness ==
    /\ Fused
    /\ Len(rrf.out) = 2
    /\ OutScore(1) > OutScore(2)
    /\ \E t \in InputTexts \ OutTexts : TotalScore(t) < OutScore(2)

\* C5: fusion deduplicates by chunk text alone: no two fused entries have
\* the same text, whatever the ids of the chunks; a text returned by both
\* sub-searches is one candidate, so it is in the output exactly once when k
\* does not cut the candidates, and never more than once.
C5_DedupByText ==
    Fused =>
      /\ \A i \in DOMAIN rrf.out : \A j \in DOMAIN rrf.out :
           i # j => OutText(i) # OutText(j)
      /\ rrf.k >= Cardinality(InputTexts) =>
           \A t \in InputTexts :
             Cardinality({i \in DOMAIN rrf.out : OutText(i) = t}) = 1

\* one text returned by both sub-searches, twice by the vector sub-search
\* under two ids, fused into a single entry
C5_Witness ==
    /\ Fused
    /\ \E t \in InputTexts :
         /\ Cardinality(VecRanks(t)) = 2
         /\ Bm25Ranks(t) # {}
         /\ Cardinality({i \in DOMAIN rrf.out : OutText(i) = t}) = 1
    /\ Len(rrf.out) = 2

(***************************************************************************)
(* Properties of search, refresh and add_documents.                        *)
(***************************************************************************)
Searched == ret.op = "search"

SearchReturned == Searched /\ ret.outcome = "return"

\* the chunk texts found by the two sub-searches of the search that just ended
FoundTexts ==
    {ret.vec_results[i].doc.page_content : i \in DOMAIN ret.vec_results}
    \cup {ret.bm25_results[i].page_content : i \in DOMAIN ret.bm25_results}

InSeq(x, seq) == \E i \in DOMAIN seq : seq[i] = x

\* C1 (as claimed), checked under SpecStartup: a search whose sub-searches
\* ran returns at most k results, and returns exactly k whenever the two
\* sub-searches found at least k distinct chunks (distinct by content, the
\* key fusion deduplicates on), on the fused and on the vector-only path.
C1_TopKBound ==
    (Searched /\ ~ret.vfail) =>
      /\ ret.outcome = "return" => Len(ret.results) <= ret.k
      /\ Cardinality(FoundTexts) >= ret.k =>
           (ret.outcome = "return" /\ Len(ret.results) = ret.k)

\* The bound of C1 does hold of every search that returns.
C1_HoldsWhenReturned ==
    SearchReturned =>
      /\ Len(ret.results) <= ret.k
      /\ Cardinality(FoundTexts) >= ret.k => Len(ret.results) = ret.k

\* C6: with the keyword index empty or unbuilt, a search whose vector
\* sub-search succeeds returns the first k vector results in vector order,
\* each annotated vector_only with its vector score.
C6_VectorOnlyFallback ==
    (Searched /\ ~ret.vfail /\ (bm25_index = NoneIndex \/ docs_map = <<>>)) =>
      /\ ret.outcome = "return"
      /\ ret.path = "vector_only"
      /\ ret.results =
           [i \in 1..Min(ret.k, Len(ret.vec_results)) |->
              [doc |-> ret.vec_results[i].doc,
               metadata |-> [source |-> "vector_only",
                             score |-> ret.vec_results[i].score]]]

\* a failed build left docs_map filled and the index unset; the search cut
\* two vector results to k = 1
C6_Witness ==
    /\ Searched /\ ~ret.vfail
    /\ bm25_index = NoneIndex /\ docs_map # <<>>
    /\ ret.k = 1
    /\ Len(ret.vec_results) = 2
    /\ Len(ret.results) = 1

\* C7: when refresh() ends without a build failure, docs_map holds exactly
\* the chunks of the store, one entry per stored chunk with its text and
\* metadata, in store order, and the index is built over exactly those texts
\* (and is unset exactly when the store is empty).
C7_RefreshMirrorsStore ==
    (ret.op = "refresh" /\ ret.completed) =>
      /\ docs_map = [i \in DOMAIN store |->
                       Document(store[i].page_content, store[i].metadata)]
      /\ bm25_index.corpus = [i \in DOMAIN store |-> store[i].page_content]
      /\ bm25_index.built <=> store # <<>>

\* a refresh over a store holding the same content under two ids: both are in
\* docs_map
C7_Witness ==
    /\ ret.op = "refresh" /\ ret.completed
    /\ Len(store) = 2
    /\ store[1].page_content = store[2].page_content
    /\ Len(docs_map) = 2

\* the chunks read by the last completed build, as build_bm25 rebuilds them
BuiltDocs == {Document(built[i].page_content, built[i].metadata) : i \in DOMAIN built}

BuiltTexts == {built[i].page_content : i \in DOMAIN built}

\* C8 (as claimed): the keyword sub-search returns only chunks that were in
\* the store at the last build, and a chunk inserted since then is never
\* reported with a keyword match.
C8_NewChunkNeverKeywordMatched ==
    SearchReturned =>
      /\ \A j \in DOMAIN ret.bm25_results : ret.bm25_results[j] \in BuiltDocs
      /\ \A i \in DOMAIN ret.results :
           (ret.path = "fused" /\ ret.results[i].doc.id \notin StoreIds(built)
              /\ ret.results[i].doc.id # NoId)
             => ~InSeq("bm25", ret.results[i].metadata.sources)

\* C8 (amended): the keyword sub-search returns only chunks that were in the
\* store at the last build, and a chunk inserted since then is reported with
\* a keyword match only when its text is the text of a chunk that was in the
\* store at the last build.
C8_KeywordSideIsStale ==
    Searched =>
      /\ \A j \in DOMAIN ret.bm25_results : ret.bm25_results[j] \in BuiltDocs
      /\ \A i \in DOMAIN ret.results :
           (ret.path = "fused" /\ ret.results[i].doc.page_content \notin BuiltTexts)
             => ~InSeq("bm25", ret.results[i].metadata.sources)

\* a fused search, before any refresh, that returns a chunk inserted after
\* the last build from the vector side alone
C8_Witness ==
    /\ SearchReturned
    /\ ret.path = "fused"
    /\ \E i \in DOMAIN ret.results :
         /\ ret.results[i].doc.id \in StoreIds(store) \ StoreIds(built)
         /\ ret.results[i].doc.page_content \notin BuiltTexts
         /\ ret.results[i].metadata.sources = <<"vector">>

Added == ret.op = "add_documents"

\* every id the add_documents call that just ended handed to the store
RECURSIVE HandedIds(_)
HandedIds(calls) ==
    IF calls = <<>> THEN <<>> ELSE Head(calls).ids \o HandedIds(Tail(calls))

\* C9 (as claimed), checked under SpecStore: no two stored chunks share an
\* id, and add_documents hands the store no id that the store already holds
\* and no id twice within one call.
C9_NoIdHandedTwice ==
    /\ \A i, j \in DOMAIN store : i # j => store[i].id # store[j].id
    /\ Added =>
         /\ \A c \in DOMAIN ret.calls :
              \A x \in DOMAIN ret.calls[c].ids :
                ret.calls[c].ids[x] \notin ret.calls[c].present
         /\ ~HasDuplicates(HandedIds(ret.calls))

\* C10 (as claimed), checked under SpecStore: when one add_documents call,
\* in which no store operation fails, holds the same (source, content) twice
\* and both ids are generated at the same instant, exactly one chunk with
\* that id is stored afterwards.
C10_SamePairStoredOnce ==
    (Added /\ ret.failAt > Len(ret.calls)) =>
      \A i, j \in DOMAIN ret.documents :
        (i < j /\ ret.documents[i] = ret.documents[j]
           /\ ret.instants[i] = ret.instants[j]) =>
          Cardinality({p \in DOMAIN store :
                         store[p].id = _generate_id(ret.documents[i].page_content,
                                                    ret.documents[i].metadata.source,
                                                    ret.instants[i])}) = 1

(***************************************************************************)
(* Chunk identity.                                                         *)
(***************************************************************************)
\* the id _generate_id gave the i-th document of the add_documents call that
\* just ended
CallId(i) ==
    _generate_id(ret.documents[i].page_content,
                 ret.documents[i].metadata.source, ret.instants[i])

\* the stored chunks with the source and content of the i-th document
SameSourceContent(st, i) ==
    {p \in DOMAIN st :
       /\ st[p].page_content = ret.documents[i].page_content
       /\ st[p].metadata.source = ret.documents[i].metadata.source}

C12_VectorFailureRaisesRetrievalError ==
    (Searched /\ ret.vfail) =>
      /\ ret.outcome = "raise"
      /\ ret.error = "RetrievalError"

\* What does hold: search() never returns when the vector sub-search failed.
C12_VectorFailureNeverReturns ==
    (Searched /\ ret.vfail) => ret.outcome = "raise"

(***************************************************************************)
(* Properties of IngestionPipeline.run, checked under SpecRun.             *)
(***************************************************************************)
Ran == ret.op = "run"

\* the storage phase called the store and a call failed
StoreWriteFailed ==
    /\ Ran
    /\ ret.calls # <<>>
    /\ \/ ret.failAt = Len(ret.calls)
       \/ HasDuplicates(ret.calls[Len(ret.calls)].ids)

\* C13 (as claimed): when a store write fails in the storage phase, run
\* raises an error of type IngestionError.
C13_StoreFailureRaisesIngestionError ==
    StoreWriteFailed =>
      /\ ret.outcome = "raise"
      /\ ret.error = "IngestionError"

\* What does hold: run does not return normally when a store write failed.
C13_StoreFailureNeverReturns == StoreWriteFailed => ret.outcome = "raise"

\* the file fails in the processing phase
FileFails(file) ==
    /\ _is_supported_file(file)
    /\ \/ file.size # "ok"
       \/ file.load # "ok"
       \/ process_file(file, ret.clock).chunks = <<>>

\* the valid chunks the files of the folder give, in folder order
RECURSIVE ExpectedChunks(_, _)
ExpectedChunks(files, now) ==
    IF files = <<>> THEN <<>>
    ELSE (IF _is_supported_file(Head(files)) /\ Head(files).size = "ok"
          THEN ValidChunks(process_file(Head(files), now).chunks)
          ELSE <<>>)
         \o ExpectedChunks(Tail(files), now)

\* C14 (as claimed): a file that fails in the processing phase does not
\* abort the run.  No exception leaves the processing phase (run raises only
\* out of the storage phase), the chunks of every supported file that can be
\* processed reach the storage phase, and when run returns, each failed
\* file is in files_failed and failed_files counts them.
C14_FileFailureNeverAborts ==
    (Ran /\ ret.folder.exists
         /\ \E i \in DOMAIN ret.folder.files : FileFails(ret.folder.files[i])) =>
      /\ ret.outcome = "raise" => ret.calls # <<>> \/ ret.failAt = 0
      /\ ret.passed = ExpectedChunks(ret.folder.files, ret.clock)
      /\ ret.outcome = "return" =>
           /\ \A i \in DOMAIN ret.folder.files :
                FileFails(ret.folder.files[i]) =>
                  \E j \in DOMAIN ret.value.files_failed :
                    ret.value.files_failed[j].file = ret.folder.files[i].name
           /\ ret.value.failed_files = Len(ret.value.files_failed)

\* What does hold: the same, when the size of every file can be read.
C14_HoldsWhenSizesReadable ==
    (Ran /\ \A i \in DOMAIN ret.folder.files : ret.folder.files[i].size # "error")
      => C14_FileFailureNeverAborts

\* C15: run on a folder that does not exist returns a value that reports
\* failure, raises nothing, and makes no call to the store.
C15_MissingFolderReportsFailure ==
    (Ran /\ ~ret.folder.exists) =>
      /\ ret.outcome = "return"
      /\ ret.value.success = FALSE
      /\ ret.value.error # None
      /\ ret.calls = <<>>
      /\ store = ret.before

C15_Witness == Ran /\ ~ret.folder.exists /\ ret.outcome = "return"

StatsKeys ==
    {"total_files", "processed_files", "failed_files", "total_chunks",
     "files_processed", "files_failed"}

\* C16 (as claimed): every value run returns carries total_files,
\* processed_files, failed_files, total_chunks and the per-file results.
C16_ResultAlwaysStructured ==
    (Ran /\ ret.outcome = "return") => StatsKeys \subseteq DOMAIN ret.value

\* What does hold: the value returned for a folder that exists is structured.
C16_StructuredWhenFolderExists ==
    (Ran /\ ret.outcome = "return" /\ ret.folder.exists)
      => StatsKeys \subseteq DOMAIN ret.value

\* C20: every chunk run hands to the store has content that is not empty
\* and not whitespace only, and metadata with source, processed_at, a domain
\* of the Domain enumeration, and char_count equal to the length of the
\* content; what the store receives is those chunks.
C20_StoredChunksAreValid ==
    Ran =>
      /\ \A i \in DOMAIN ret.passed :
           LET c == ret.passed[i]
           IN /\ len(strip(c.page_content)) > 0
              /\ {"source", "domain", "processed_at", "char_count"}
                   \subseteq DOMAIN c.metadata
              /\ c.metadata.domain \in DomainValues
              /\ c.metadata.char_count = len(c.page_content)
      /\ \A p \in DOMAIN store :
           \E i \in DOMAIN ret.passed :
             /\ store[p].page_content = text_of(ret.passed[i].page_content)
             /\ store[p].metadata = ret.passed[i].metadata

\* a stored chunk of a document whose loader metadata already had domain and
\* char_count, from a file that also gave a whitespace-only chunk elsewhere
C20_Witness ==
    /\ Ran /\ ret.outcome = "return"
    /\ \E p \in DOMAIN store :
         /\ store[p].metadata.domain = "programming"
         /\ store[p].metadata.char_count = 6
    /\ \E i \in DOMAIN ret.folder.files :
         Len(ValidChunks(process_file(ret.folder.files[i], ret.clock).chunks))
           < Len(process_file(ret.folder.files[i], ret.clock).chunks)

(***************************************************************************)
(* Keyword index build failures, checked under Spec.  HybridSearch() over  *)
(* the empty store leaves the same state whether its build failed or not,  *)
(* so Init covers a failed build at construction.                          *)
(***************************************************************************)
\* C17: a build that fails raises nothing and leaves the index unset; with
\* the index unset every search whose vector sub-search succeeds returns
\* vector-only results; and the index stays unset until a build completes.
C17_BuildFailureFallsBack ==
    /\ []((ret.op = "refresh" /\ ~ret.completed) => bm25_index = NoneIndex)
    /\ []((Searched /\ ~ret.vfail /\ bm25_index = NoneIndex) =>
            (ret.outcome = "return" /\ ret.path = "vector_only"))
    /\ [][(bm25_index = NoneIndex /\ bm25_index' # NoneIndex) =>
            (ret'.op = "refresh" /\ ret'.completed)]_vars

\* a build had completed over a store that was not empty, a later build
\* failed, and a search then returned vector-only results
C17_Witness ==
    /\ Searched /\ ~ret.vfail
    /\ built # <<>>
    /\ bm25_index = NoneIndex
    /\ ret.path = "vector_only"
    /\ ret.results # <<>>

(***************************************************************************)
(* Concurrency.                                                            *)
(***************************************************************************)
\* C18 (as claimed), checked under SpecRace: a search that runs while a
\* refresh runs does not fail, and the docs_map and the index it ranks with
\* come from one build: the index is over exactly the texts of that docs_map.
C18_SearchSeesOneBuild ==
    pc.search.at = "done" =>
      /\ pc.search.outcome = "return"
      /\ pc.search.usable => pc.search.index = IndexOver(pc.search.docs)

\* C19 (as claimed), checked under SpecIngestRace: two concurrent
\* add_documents calls are never interleaved (neither reads or writes the
\* store while the other is between its read of the existing ids and its
\* last insert), and no id is inserted by both.
C19_BatchesNotInterleaved ==
    /\ ~pc.interleaved
    /\ pc.first.written \cap pc.second.written = {}

\* What does hold: while no call touched the store inside the other's window
\* (the calls happened to run one after the other), no id is inserted twice.
C19_SerialCallsShareNoId ==
    ~pc.interleaved => pc.first.written \cap pc.second.written = {}

(***************************************************************************)
(* MetadataMerger.merge                                                    *)
(***************************************************************************)
Merged == ret.op = "merge"

\* C21 (as claimed), under SpecMerge: a processed_at that doc_metadata has is
\* the processed_at merge returns, whatever extra_metadata holds; when
\* neither has one, merge sets it; the two arguments are left as they were.
C21_ProcessedAtSetOnce ==
    Merged =>
      /\ "processed_at" \in DOMAIN ret.doc_metadata
           => ret.value["processed_at"] = ret.doc_metadata["processed_at"]
      /\ "processed_at" \notin DOMAIN ret.doc_metadata \cup DOMAIN ret.extra_metadata
           => /\ "processed_at" \in DOMAIN ret.value
              /\ ret.value["processed_at"] = ret.now
      /\ ret.doc_after = ret.doc_metadata
      /\ ret.extra_after = ret.extra_metadata

\* What does hold: the processed_at of doc_metadata is kept when
\* extra_metadata has none; one in extra_metadata replaces it.
C21_ExtraProcessedAtWins ==
    Merged =>
      /\ "processed_at" \in DOMAIN ret.value
      /\ ret.value["processed_at"] =
           IF "processed_at" \in DOMAIN ret.extra_metadata
           THEN ret.extra_metadata["processed_at"]
           ELSE IF "processed_at" \in DOMAIN ret.doc_metadata
           THEN ret.doc_metadata["processed_at"]
           ELSE ret.now

(***************************************************************************)
(* DomainDetector.detect                                                   *)
(***************************************************************************)
Detected == ret.op = "detect"

\* the place of a domain in the enumeration
DomainIndex(d) == CHOOSE i \in DOMAIN Domain : Domain[i] = d

\* C22, under SpecDetect: detect returns GENERAL exactly when every domain
\* scores zero; otherwise it returns a domain no other domain outscores, and
\* every domain before it in the enumeration scores strictly less.
C22_DetectPicksFirstHighest ==
    Detected =>
      LET d == ret.domain
          score(e) == KeywordScore(ret.text, e)
      IN /\ d \in DomainValues
         /\ d = "general" <=> \A e \in DomainValues : score(e) = 0
         /\ d # "general" =>
              /\ \A e \in DomainValues : score(e) <= score(d)
              /\ \A e \in DomainValues :
                   DomainIndex(e) < DomainIndex(d) => score(e) < score(d)

\* two domains tie on the highest score, above zero, and the text starts with
\* a keyword of the later one
C22_Witness ==
    /\ Detected
    /\ ret.domain = "programming"
    /\ KeywordScore(ret.text, "dsa") = KeywordScore(ret.text, "programming")
    /\ ret.text # <<>> /\ ret.text[1] = "tree"

(***************************************************************************)
(* RRF monotonicity                                                        *)
(***************************************************************************)
\* a/b > c/d on fractions with positive denominators
FractionGreater(x, y) ==
    LET g == Gcd(x.den, y.den)
    IN x.num * (y.den \div g) > y.num * (x.den \div g)

\* _rrf_fusion given one of the two result lists only (the other empty)
FusedAlone ==
    [vector |-> _rrf_fusion(rrf.vec_results, <<>>, Len(rrf.vec_results), rrf.c),
     bm25 |-> _rrf_fusion(<<>>, rrf.bm25_results, Len(rrf.bm25_results), rrf.c)]

\* the scores text t has in the two fusions of alone, for those that return
AloneScores(alone, t) ==
    LET of(f) == {f.results[i].metadata.rrf_score :
                    i \in {j \in DOMAIN f.results : f.results[j].doc.page_content = t}}
    IN (IF alone.vector.raised THEN {} ELSE of(alone.vector))
       \cup (IF alone.bm25.raised THEN {} ELSE of(alone.bm25))

\* C23, under SpecRRF: a fused entry that both sub-searches returned scores
\* strictly more than 1/(c + r) for its better rank r, and strictly more
\* than the same text scores when only one of the two lists is fused.
C23_BothBeatsOne ==
    Fused =>
      \A fusedAlone \in {FusedAlone} :
        \A i \in DOMAIN rrf.out :
          (VecRanks(OutText(i)) # {} /\ Bm25Ranks(OutText(i)) # {}) =>
            /\ \A r \in VecRanks(OutText(i)) \cup Bm25Ranks(OutText(i)) :
                 OutScore(i) > Recip(rrf.c, r, InputScale)
            /\ \A alone \in AloneScores(fusedAlone, OutText(i)) :
                 FractionGreater(rrf.out[i].metadata.rrf_score, alone)

\* an entry found by both sub-searches, at different ranks, not first in
\* either list, whose text each list alone also yields
C23_Witness ==
    /\ Fused
    /\ \E i \in DOMAIN rrf.out :
         /\ rrf.out[i].metadata.sources = <<"vector", "bm25">>
         /\ rrf.out[i].metadata.vector_rank > 1
         /\ rrf.out[i].metadata.bm25_rank > rrf.out[i].metadata.vector_rank
         /\ Cardinality(AloneScores(FusedAlone, OutText(i))) = 2

(***************************************************************************)
(* Fusion metadata                                                         *)
(***************************************************************************)
SourcesOf(i) ==
    {rrf.out[i].metadata.sources[j] : j \in DOMAIN rrf.out[i].metadata.sources}

\* C24 (as claimed), under SpecRRF: for every fused entry, sources lists
\* exactly the sub-searches that returned its text, each once; vector_rank
\* and bm25_rank are 1-based positions of the text in those lists; rrf_score
\* is the sum over the listed sources of 1/(c + reported rank - 1).
C24_MetadataAgreesWithScore ==
    Fused =>
      \A i \in DOMAIN rrf.out :
        LET m == rrf.out[i].metadata
            t == OutText(i)
        IN /\ SourcesOf(i) = (IF VecRanks(t) # {} THEN {"vector"} ELSE {})
                             \cup (IF Bm25Ranks(t) # {} THEN {"bm25"} ELSE {})
           /\ Len(m.sources) = Cardinality(SourcesOf(i))
           /\ "vector" \in SourcesOf(i) => (m.vector_rank - 1) \in VecRanks(t)
           /\ "bm25" \in SourcesOf(i) => (m.bm25_rank - 1) \in Bm25Ranks(t)
           /\ OutScore(i) =
                (IF "vector" \in SourcesOf(i)
                 THEN Recip(rrf.c, m.vector_rank - 1, InputScale) ELSE 0)
                + (IF "bm25" \in SourcesOf(i)
                   THEN Recip(rrf.c, m.bm25_rank - 1, InputScale) ELSE 0)

\* The formula of C24 does hold on the lists in which no text repeats.
C24_HoldsWithoutRepeats == NoRepeats => C24_MetadataAgreesWithScore

(***************************************************************************)
(* Statistics of run                                                       *)
(***************************************************************************)
ReturnedStats == Ran /\ ret.outcome = "return" /\ ret.folder.exists

Oversized ==
    {i \in DOMAIN ret.folder.files :
       _is_supported_file(ret.folder.files[i]) /\ ret.folder.files[i].size = "large"}

\* C25 (as claimed), under SpecRun: in the statistics run returns,
\* processed_files + failed_files = total_files, failed_files is the length
\* of files_failed and processed_files the length of files_processed.
C25_StatsAccountForEveryFile ==
    ReturnedStats =>
      /\ ret.value.processed_files + ret.value.failed_files = ret.value.total_files
      /\ ret.value.failed_files = Len(ret.value.files_failed)
      /\ ret.value.processed_files = Len(ret.value.files_processed)

\* What does hold: the two counters are the lengths of their lists, and the
\* sum exceeds total_files by the number of oversized files, which are
\* counted as failed and not as files.
C25_OversizedNotInTotal ==
    ReturnedStats =>
      /\ ret.value.processed_files + ret.value.failed_files
           = ret.value.total_files + Cardinality(Oversized)
      /\ ret.value.failed_files = Len(ret.value.files_failed)
      /\ ret.value.processed_files = Len(ret.value.files_processed)

(***************************************************************************)
(* The API handlers                                                        *)
(***************************************************************************)
Ingested == ret.op = "ingest"

\* the places in the store of the chunks the request wrote
WrittenByRequest == (Len(ret.before) + 1)..Len(store)

\* the chunk at place i of the store is in docs_map and in the corpus the
\* keyword index was built over
InKeywordIndex(i) ==
    /\ bm25_index # NoneIndex
    /\ \E j \in DOMAIN docs_map :
         /\ docs_map[j].page_content = store[i].page_content
         /\ docs_map[j].metadata = store[i].metadata
         /\ j \in DOMAIN bm25_index.corpus
         /\ bm25_index.corpus[j] = store[i].page_content

\* C26 (as claimed), under SpecApi: when a POST /ingest/ request has
\* finished, with success or with an error, every chunk it wrote to the
\* store is part of the keyword index.
C26_IngestedChunksIndexed ==
    Ingested => \A i \in WrittenByRequest : InKeywordIndex(i)

\* What does hold: after a request answered with 200 whose index build
\* completed, every chunk of the store is part of the keyword index; a
\* request answered with 500 has not refreshed.
C26_IndexedWhenRefreshCompletes ==
    Ingested =>
      /\ (ret.status = 200 /\ ret.completed) =>
           \A i \in DOMAIN store : InKeywordIndex(i)
      /\ ret.status = 500 => ~ret.refreshed
      /\ ret.status = 200 => ret.refreshed

SearchAnswered == ret.op = "search_documents"

\* C27 (as claimed), under SpecApi: when search returned at least one
\* candidate and the answer was generated, POST /search/ answers 200 with
\* count = min(k, number of candidates) and one entry per returned chunk, in
\* search order.
C27_CountIsMinOfKAndCandidates ==
    (/\ SearchAnswered
     /\ ret.searched = "return"
     /\ ret.candidates # <<>>
     /\ ~ret.llmfail) =>
      /\ ret.status = 200
      /\ ret.count = Min(ret.k, Len(ret.candidates))
      /\ Len(ret.results) = ret.count
      /\ \A i \in DOMAIN ret.results :
           ret.results[i].content = ret.candidates[i].doc.page_content

\* What does hold: a request is answered with 200 only when no candidate is
\* left after the cut to k, and then with count 0.
C27_AnswersOnlyWithoutCandidates ==
    (SearchAnswered /\ ret.status = 200) =>
      /\ Take(ret.candidates, ret.k) = <<>>
      /\ ret.count = 0
      /\ ret.results = <<>>

(***************************************************************************)
(* search is read-only                                                     *)
(***************************************************************************)
\* C28, under SpecSearch: a call of search, returning or raising, leaves the
\* store, docs_map and the keyword index as they were, and every document it
\* returns is a stored or an indexed chunk with the metadata it had: the
\* fusion metadata is in the second component of the pair.
C28_SearchIsReadOnly ==
    [][(ret.op = "none" /\ ret'.op = "search") =>
         /\ store' = store
         /\ docs_map' = docs_map
         /\ bm25_index' = bm25_index
         /\ \A i \in DOMAIN ret'.results :
              \/ \E j \in DOMAIN store : ret'.results[i].doc = store[j]
              \/ \E j \in DOMAIN docs_map : ret'.results[i].doc = docs_map[j]]_vars

\* a search returned a fused list with an entry that both sub-searches found:
\* the keyword sub-search handed over an object of docs_map, and both loops
\* of the fusion wrote metadata for it
C28_Witness ==
    /\ ret.op = "search"
    /\ ret.outcome = "return"
    /\ ret.path = "fused"
    /\ \E i \in DOMAIN ret.results :
         /\ ret.results[i].metadata.sources = <<"vector", "bm25">>
         /\ ret.results[i].doc \in {store[j] : j \in DOMAIN store}

\* The same under SpecRRF, where a text that only the keyword sub-search
\* found is among the results: every document _rrf_fusion returns is one of
\* the documents it was given, as it was given.
C28_FusionKeepsDocuments ==
    Fused =>
      \A i \in DOMAIN rrf.out :
        \/ \E j \in DOMAIN rrf.vec_results : rrf.out[i].doc = rrf.vec_results[j].doc
        \/ \E j \in DOMAIN rrf.bm25_results : rrf.out[i].doc = rrf.bm25_results[j]

(***************************************************************************)
(* MemoryManager                                                           *)
(***************************************************************************)
\* the last min(n, limit) of the n messages added to the session since its
\* last clear
LastAdded(session_id) ==
    LET n == Len(memory.added[session_id])
    IN SubSeq(memory.added[session_id], n - Min(n, memory.limit) + 1, n)

\* C29 (as claimed), under SpecMemory: for every limit >= 0 and every
\* session, get_history is the last min(n, limit) messages added since the
\* last clear, in insertion order, and so never longer than the limit.
C29_HistoryIsLastMessages ==
    \A s \in Sessions :
      /\ get_history(memory.history, s) = LastAdded(s)
      /\ Len(get_history(memory.history, s)) <= memory.limit
      /\ ret.op = "get_history" /\ ret.session_id = s => ret.value = LastAdded(s)

\* What does hold: the claim for every limit of at least 1; with limit 0
\* nothing is ever trimmed and get_history is every message added.
C29_HoldsForPositiveLimit ==
    IF memory.limit >= 1 THEN C29_HistoryIsLastMessages
    ELSE \A s \in Sessions : get_history(memory.history, s) = memory.added[s]

====
